---- MODULE Spec2Model ----
(***************************************************************************)
(* A model of simple-potracker: the draft/persisted store hook             *)
(* (useDraftStore), the local-storage adapter (loadStore / saveStore), the *)
(* canonical serialisation (stableStringify) and the PO computation        *)
(* (computePO).                                                            *)
(*                                                                         *)
(* JavaScript values are tagged records; JSON text is a sequence of        *)
(* tokens, so JSON.stringify and JSON.parse are real conversions: they     *)
(* drop undefined properties, turn NaN and the infinities into null, and   *)
(* keep the insertion order of the keys.                                   *)
(***************************************************************************)
EXTENDS Integers, Sequences, FiniteSets, TLC

----------------------------------------------------------------------------
(* JavaScript values *)

Undef == [t |-> "undef"]
Null == [t |-> "null"]
Str(s) == [t |-> "str", s |-> s]
Num(n) == [t |-> "num", k |-> "fin", n |-> n]
NaN == [t |-> "num", k |-> "nan", n |-> 0]
PosInf == [t |-> "num", k |-> "pinf", n |-> 0]
NegInf == [t |-> "num", k |-> "ninf", n |-> 0]
Obj(kv) == [t |-> "obj", kv |-> kv]
Arr(el) == [t |-> "arr", el |-> el]
P(k, v) == [k |-> k, v |-> v]

IsObj(v) == v.t = "obj"
IsArr(v) == v.t = "arr"

HasKey(o, key) == \E i \in 1..Len(o.kv) : o.kv[i].k = key

(* o[key]: undefined when the property is absent or o is no plain object *)
Get(o, key) ==
  IF IsObj(o) /\ HasKey(o, key)
  THEN o.kv[CHOOSE i \in 1..Len(o.kv) : o.kv[i].k = key].v
  ELSE Undef

(* { ...o, key: v }: an existing key keeps its position, a new one is appended *)
Put(o, key, v) ==
  IF HasKey(o, key)
  THEN Obj([i \in 1..Len(o.kv) |-> IF o.kv[i].k = key THEN P(key, v) ELSE o.kv[i]])
  ELSE Obj(Append(o.kv, P(key, v)))

----------------------------------------------------------------------------
(* JSON text: a sequence of tokens *)

Tok(k, s, n) == [k |-> k, s |-> s, n |-> n]
Punct(c) == Tok(c, "", 0)
StrTok(s) == Tok("str", s, 0)
NumTok(n) == Tok("num", "", n)
NullTok == Tok("null", "", 0)
(* text that is no JSON at all *)
BadTok == Tok("bad", "", 0)

RECURSIVE Ser(_)
RECURSIVE SerMembers(_, _, _)
RECURSIVE SerElems(_, _)

(* the members of an object from index i on; a property whose value is
   undefined is left out *)
SerMembers(kv, i, first) ==
  IF i > Len(kv) THEN <<>>
  ELSE IF kv[i].v = Undef THEN SerMembers(kv, i + 1, first)
  ELSE (IF first THEN <<>> ELSE <<Punct(",")>>)
         \o <<StrTok(kv[i].k), Punct(":")>> \o Ser(kv[i].v)
         \o SerMembers(kv, i + 1, FALSE)

SerElems(el, i) ==
  IF i > Len(el) THEN <<>>
  ELSE (IF i = 1 THEN <<>> ELSE <<Punct(",")>>) \o Ser(el[i]) \o SerElems(el, i + 1)

(* JSON.stringify of a value inside a document: a non-finite number and an
   undefined array element become null *)
Ser(v) ==
  CASE v.t = "str" -> <<StrTok(v.s)>>
    [] v.t = "num" -> IF v.k = "fin" THEN <<NumTok(v.n)>> ELSE <<NullTok>>
    [] v.t = "null" -> <<NullTok>>
    [] v.t = "undef" -> <<NullTok>>
    [] v.t = "obj" -> <<Punct("{")>> \o SerMembers(v.kv, 1, TRUE) \o <<Punct("}")>>
    [] v.t = "arr" -> <<Punct("[")>> \o SerElems(v.el, 1) \o <<Punct("]")>>

JSONstringify(v) == Ser(v)

ParseFail == [ok |-> FALSE, v |-> Undef, i |-> 0]
ParseOk(v, i) == [ok |-> TRUE, v |-> v, i |-> i]

RECURSIVE PVal(_, _)
RECURSIVE PMembers(_, _, _)
RECURSIVE PElems(_, _, _)

(* after "{" or ",": a member "key" : value, then "," or "}" *)
PMembers(ts, i, kv) ==
  IF i + 1 > Len(ts) \/ ts[i].k # "str" \/ ts[i + 1].k # ":" THEN ParseFail
  ELSE LET r == PVal(ts, i + 2) IN
    IF ~r.ok \/ r.i > Len(ts) THEN ParseFail
    ELSE LET kv2 == Append(kv, P(ts[i].s, r.v)) IN
      CASE ts[r.i].k = "}" -> ParseOk(Obj(kv2), r.i + 1)
        [] ts[r.i].k = "," -> PMembers(ts, r.i + 1, kv2)
        [] OTHER -> ParseFail

PElems(ts, i, el) ==
  LET r == PVal(ts, i) IN
    IF ~r.ok \/ r.i > Len(ts) THEN ParseFail
    ELSE LET el2 == Append(el, r.v) IN
      CASE ts[r.i].k = "]" -> ParseOk(Arr(el2), r.i + 1)
        [] ts[r.i].k = "," -> PElems(ts, r.i + 1, el2)
        [] OTHER -> ParseFail

PVal(ts, i) ==
  IF i > Len(ts) THEN ParseFail
  ELSE CASE ts[i].k = "str" -> ParseOk(Str(ts[i].s), i + 1)
         [] ts[i].k = "num" -> ParseOk(Num(ts[i].n), i + 1)
         [] ts[i].k = "null" -> ParseOk(Null, i + 1)
         [] ts[i].k = "{" ->
              IF i + 1 <= Len(ts) /\ ts[i + 1].k = "}"
              THEN ParseOk(Obj(<<>>), i + 2)
              ELSE PMembers(ts, i + 1, <<>>)
         [] ts[i].k = "[" ->
              IF i + 1 <= Len(ts) /\ ts[i + 1].k = "]"
              THEN ParseOk(Arr(<<>>), i + 2)
              ELSE PElems(ts, i + 1, <<>>)
         [] OTHER -> ParseFail

(* JSON.parse: ok = FALSE stands for the SyntaxError it throws *)
JSONparse(ts) ==
  LET r == PVal(ts, 1) IN
    IF r.ok /\ r.i = Len(ts) + 1 THEN r ELSE ParseFail

----------------------------------------------------------------------------
(* stableStringify: JSON.stringify with a replacer that rebuilds every plain
   object with its keys sorted; arrays keep their order. Values are trees:
   no operation of the application puts one object at two places of a store
   (every copy is a spread, a map or a JSON round trip), so the replacer's
   seen set never holds a value it meets and its "[Circular]" branch is
   not taken *)

(* the property names of the data model in the order String sort gives *)
KeyOrder ==
  <<"customerId", "customers", "date", "id", "markup", "name", "note",
    "poNumber", "pos", "producerId", "producers", "rate", "sessions",
    "status", "trainingId", "trainings", "units", "version">>

(* the position of each name in that order *)
KeyRanks ==
  [key \in {KeyOrder[i] : i \in 1..Len(KeyOrder)} |->
     CHOOSE i \in 1..Len(KeyOrder) : KeyOrder[i] = key]

KeyRank(key) == KeyRanks[key]

RECURSIVE InsertKV(_, _)
InsertKV(sorted, p) ==
  IF sorted = <<>> THEN <<p>>
  ELSE IF KeyRank(p.k) < KeyRank(Head(sorted).k) THEN <<p>> \o sorted
  ELSE <<Head(sorted)>> \o InsertKV(Tail(sorted), p)

RECURSIVE SortKV(_)
SortKV(kv) == IF kv = <<>> THEN <<>> ELSE InsertKV(SortKV(Tail(kv)), Head(kv))

(* a slip: the keys stay in insertion order *)
RECURSIVE sorterKeepOrder(_)
sorterKeepOrder(v) ==
  CASE v.t = "obj" ->
         Obj([i \in 1..Len(v.kv) |-> P(v.kv[i].k, sorterKeepOrder(v.kv[i].v))])
    [] v.t = "arr" -> Arr([i \in 1..Len(v.el) |-> sorterKeepOrder(v.el[i])])
    [] OTHER -> v

RECURSIVE sorter(_)
sorter(v) ==
  CASE v.t = "obj" ->
         LET s == SortKV(v.kv) IN
           Obj([i \in 1..Len(s) |-> P(s[i].k, sorter(s[i].v))])
    [] v.t = "arr" -> Arr([i \in 1..Len(v.el) |-> sorter(v.el[i])])
    [] OTHER -> v

stableStringify(v) == JSONstringify(sorter(v))

----------------------------------------------------------------------------
(* helpers.ts: uid, todayISO, addDaysISO *)

(* uid(prefix): prefix, a random part and the time; n stands for the pair
   (random, time), which the model draws fresh from a counter *)
uid(prefix, n) == Str(prefix \o "_" \o ToString(n))

(* the local calendar as a table of ISO dates *)
Calendar ==
  <<
     "2026-01-01", "2026-01-02", "2026-01-03", "2026-01-04", "2026-01-05", "2026-01-06",
     "2026-01-07", "2026-01-08", "2026-01-09", "2026-01-10", "2026-01-11", "2026-01-12",
     "2026-01-13", "2026-01-14", "2026-01-15", "2026-01-16", "2026-01-17", "2026-01-18",
     "2026-01-19", "2026-01-20", "2026-01-21", "2026-01-22", "2026-01-23", "2026-01-24",
     "2026-01-25", "2026-01-26", "2026-01-27", "2026-01-28", "2026-01-29", "2026-01-30",
     "2026-01-31", "2026-02-01", "2026-02-02", "2026-02-03", "2026-02-04", "2026-02-05",
     "2026-02-06", "2026-02-07", "2026-02-08", "2026-02-09", "2026-02-10", "2026-02-11",
     "2026-02-12", "2026-02-13", "2026-02-14", "2026-02-15", "2026-02-16", "2026-02-17",
     "2026-02-18", "2026-02-19", "2026-02-20", "2026-02-21", "2026-02-22", "2026-02-23",
     "2026-02-24", "2026-02-25", "2026-02-26", "2026-02-27", "2026-02-28", "2026-03-01",
     "2026-03-02", "2026-03-03", "2026-03-04", "2026-03-05", "2026-03-06", "2026-03-07",
     "2026-03-08", "2026-03-09", "2026-03-10", "2026-03-11", "2026-03-12", "2026-03-13",
     "2026-03-14", "2026-03-15", "2026-03-16", "2026-03-17", "2026-03-18", "2026-03-19",
     "2026-03-20", "2026-03-21", "2026-03-22", "2026-03-23", "2026-03-24", "2026-03-25",
     "2026-03-26", "2026-03-27", "2026-03-28", "2026-03-29", "2026-03-30", "2026-03-31"
  >>

Today == "2026-01-20"

IsCalendarDate(iso) == \E i \in 1..Len(Calendar) : Calendar[i] = iso
DayIndex(iso) == CHOOSE i \in 1..Len(Calendar) : Calendar[i] = iso

todayISO == Today

(* addDaysISO: the empty string is returned as it is; a string that is no
   date gives an invalid Date, which formats as NaN-NaN-NaN *)
addDaysISO(iso, days) ==
  IF iso = "" THEN iso
  ELSE IF IsCalendarDate(iso) THEN Calendar[DayIndex(iso) + days]
  ELSE "NaN-NaN-NaN"

----------------------------------------------------------------------------
(* utils/store: seedStore, loadStore, migratePOs, saveStore *)

(* the number of uid() calls of one seedStore() *)
SeedUids == 9

(* seedStore(), with the uids c+1 .. c+9 in the order of the calls *)
seedStore(c) ==
  LET t1 == Obj(<<P("id", uid("tr", c + 1)), P("name", Str("Aspire to lead"))>>)
      t2 == Obj(<<P("id", uid("tr", c + 2)), P("name", Str("AI in the workplace"))>>)
      c1 == Obj(<<P("id", uid("cu", c + 3)), P("name", Str("Essity"))>>)
      c2 == Obj(<<P("id", uid("cu", c + 4)), P("name", Str("Nestle"))>>)
      p1 == Obj(<<P("id", uid("pr", c + 5)), P("name", Str("Alex Johnson")),
                  P("rate", Num(650)), P("markup", Num(150))>>)
      p2 == Obj(<<P("id", uid("pr", c + 6)), P("name", Str("Samira El Amrani")),
                  P("rate", Num(600)), P("markup", Num(200))>>)
      se1 == Obj(<<P("id", uid("se", c + 8)), P("date", Str(addDaysISO(todayISO, 7))),
                   P("producerId", Get(p1, "id")), P("units", Num(1))>>)
      se2 == Obj(<<P("id", uid("se", c + 9)), P("date", Str(addDaysISO(todayISO, 14))),
                   P("producerId", Get(p1, "id")), P("units", Num(1))>>)
      po1 == Obj(<<P("id", uid("po", c + 7)), P("poNumber", Str("PO-2026-001")),
                   P("trainingId", Get(t2, "id")), P("customerId", Get(c1, "id")),
                   P("status", Str("draft")), P("sessions", Arr(<<se1, se2>>))>>)
  IN Obj(<<P("version", Num(1)), P("trainings", Arr(<<t1, t2>>)),
           P("customers", Arr(<<c1, c2>>)), P("producers", Arr(<<p1, p2>>)),
           P("pos", Arr(<<po1>>))>>)

(* { ...v }: the own properties of v; an array spreads its indices. Strings
   are atoms of the model, and no text of the bounded sets holds one in pos *)
Spread(v) ==
  CASE v.t = "obj" -> v
    [] v.t = "arr" -> Obj([i \in 1..Len(v.el) |-> P(ToString(i - 1), v.el[i])])
    [] OTHER -> Obj(<<>>)

(* a ?? b *)
Nullish(a, b) == IF a = Undef \/ a = Null THEN b ELSE a

(* migratePOs throws a TypeError when store.pos has no map() or an element of
   it is null or undefined (po.status of a nullish po) *)
migrateThrows(store) ==
  LET pos == Get(store, "pos") IN
    \/ ~IsArr(pos)
    \/ \E i \in 1..Len(pos.el) : pos.el[i] = Null \/ pos.el[i] = Undef

(* a slip: every loaded PO is reset to draft *)
migrateStatusReset(po) == Str("draft")

migrateStatus(po) == Nullish(Get(po, "status"), Str("draft"))

migratePOs(store) ==
  LET pos == Get(store, "pos")
      out == [i \in 1..Len(pos.el) |->
                Put(Spread(pos.el[i]), "status", migrateStatus(pos.el[i]))]
  IN Put(store, "pos", Arr(out))

(* !v *)
Falsy(v) ==
  \/ v = Undef
  \/ v = Null
  \/ v = Str("")
  \/ (v.t = "num" /\ (v.k = "nan" \/ (v.k = "fin" /\ v.n = 0)))

(* typeof v === "object" *)
TypeofObject(v) == v.t \in {"obj", "arr", "null"}

(* a localStorage item: absent (getItem gives null) or a text *)
NoItem == [present |-> FALSE, text |-> <<>>]
Item(text) == [present |-> TRUE, text |-> text]

(* a slip: the version is not looked at *)
acceptParsedAnyVersion(parsed) == ~Falsy(parsed) /\ TypeofObject(parsed)

(* the parsed value passes the checks of loadStore *)
acceptParsed(parsed) ==
  /\ ~Falsy(parsed)
  /\ TypeofObject(parsed)
  /\ Get(parsed, "version") = Num(1)

(* loadStore() on the item under STORAGE_KEY; c is the uid counter a seed
   store draws from *)
loadStore(item, c) ==
  IF ~item.present \/ item.text = <<>> THEN seedStore(c)
  ELSE LET r == JSONparse(item.text) IN
    IF ~r.ok THEN seedStore(c)
    ELSE IF ~acceptParsed(r.v) THEN seedStore(c)
    ELSE IF migrateThrows(r.v) THEN seedStore(c)
    ELSE migratePOs(r.v)

(* whether loadStore() returned a seed store *)
loadSeeds(item) ==
  \/ ~item.present
  \/ item.text = <<>>
  \/ LET r == JSONparse(item.text) IN
       ~r.ok \/ ~acceptParsed(r.v) \/ migrateThrows(r.v)

(* saveStore(store): the item written under STORAGE_KEY *)
saveStore(store) == Item(JSONstringify(store))

----------------------------------------------------------------------------
(* helpers.ts: clampNonNegative, computePO, on IEEE doubles with the range
   scaled down: a finite result beyond MAX_VALUE (Number.MAX_VALUE) overflows
   to an infinity, 0 times an infinity is NaN. Rounding is left out: it is
   monotone, so it does not change an order between two sums *)

MAX_VALUE == 10000

Overflow(n) ==
  IF n > MAX_VALUE THEN PosInf ELSE IF n < -MAX_VALUE THEN NegInf ELSE Num(n)

JsAdd(a, b) ==
  CASE a.k = "nan" \/ b.k = "nan" -> NaN
    [] a.k = "fin" /\ b.k = "fin" -> Overflow(a.n + b.n)
    [] a.k = "fin" -> b
    [] b.k = "fin" -> a
    [] OTHER -> IF a.k = b.k THEN a ELSE NaN

Sign(a) ==
  CASE a.k = "pinf" -> 1
    [] a.k = "ninf" -> -1
    [] OTHER -> IF a.n > 0 THEN 1 ELSE IF a.n < 0 THEN -1 ELSE 0

JsMul(a, b) ==
  CASE a.k = "nan" \/ b.k = "nan" -> NaN
    [] a.k = "fin" /\ b.k = "fin" -> Overflow(a.n * b.n)
    [] OTHER ->
         IF Sign(a) * Sign(b) = 0 THEN NaN
         ELSE IF Sign(a) * Sign(b) > 0 THEN PosInf ELSE NegInf

(* a >= b: false as soon as one side is NaN *)
JsGe(a, b) ==
  CASE a.k = "nan" \/ b.k = "nan" -> FALSE
    [] a.k = "pinf" \/ b.k = "ninf" -> TRUE
    [] a.k = "ninf" \/ b.k = "pinf" -> FALSE
    [] OTHER -> a.n >= b.n

(* Number.isFinite(v): a number, and a finite one *)
NumberIsFinite(v) == v.t = "num" /\ v.k = "fin"

clampNonNegative(v) ==
  IF ~NumberIsFinite(v) THEN Num(0)
  ELSE IF v.n < 0 THEN Num(0) ELSE v

(* new Map(producers.map((p) => [p.id, p])).get(id): the last producer with
   that id, undefined when there is none *)
MapGet(producers, id) ==
  LET hits == {i \in 1..Len(producers) : Get(producers[i], "id") = id} IN
    IF hits = {} THEN Undef
    ELSE producers[CHOOSE i \in hits : \A j \in hits : j <= i]

Zero == Num(0)

(* a slip: a session whose producer is not in the map still puts its
   producerId into producerIds *)
RECURSIVE computeLoopKeepsUnresolved(_, _, _, _)
computeLoopKeepsUnresolved(sessions, producers, i, acc) ==
  IF i > Len(sessions) THEN acc
  ELSE IF Falsy(Get(sessions[i], "producerId"))
  THEN computeLoopKeepsUnresolved(sessions, producers, i + 1, acc)
  ELSE IF Falsy(MapGet(producers, Get(sessions[i], "producerId")))
  THEN computeLoopKeepsUnresolved(sessions, producers, i + 1,
         [acc EXCEPT !.producerIds = Append(@, Get(sessions[i], "producerId"))])
  ELSE computeLoopKeepsUnresolved(sessions, producers, i + 1,
         [price |-> JsAdd(acc.price,
                          JsMul(clampNonNegative(Nullish(Get(sessions[i], "units"), Zero)),
                                JsAdd(clampNonNegative(Get(MapGet(producers, Get(sessions[i], "producerId")), "rate")),
                                      clampNonNegative(Get(MapGet(producers, Get(sessions[i], "producerId")), "markup"))))),
          profit |-> JsAdd(acc.profit,
                           JsMul(clampNonNegative(Nullish(Get(sessions[i], "units"), Zero)),
                                 clampNonNegative(Get(MapGet(producers, Get(sessions[i], "producerId")), "markup")))),
          producerIds |->
            IF \E j \in 1..Len(acc.producerIds) :
                 acc.producerIds[j] = Get(sessions[i], "producerId")
            THEN acc.producerIds
            ELSE Append(acc.producerIds, Get(sessions[i], "producerId"))])

(* the loop of computePO from session i on *)
RECURSIVE computeLoop(_, _, _, _)
computeLoop(sessions, producers, i, acc) ==
  IF i > Len(sessions) THEN acc
  ELSE LET s == sessions[i]
           pid == Get(s, "producerId")
           pr == MapGet(producers, pid)
       IN
    IF Falsy(pid) THEN computeLoop(sessions, producers, i + 1, acc)
    ELSE IF Falsy(pr) THEN computeLoop(sessions, producers, i + 1, acc)
    ELSE LET units == clampNonNegative(Nullish(Get(s, "units"), Zero))
             rate == clampNonNegative(Get(pr, "rate"))
             markup == clampNonNegative(Get(pr, "markup"))
             id == Get(pr, "id")
         IN computeLoop(sessions, producers, i + 1,
              [price |-> JsAdd(acc.price, JsMul(units, JsAdd(rate, markup))),
               profit |-> JsAdd(acc.profit, JsMul(units, markup)),
               producerIds |->
                 IF \E j \in 1..Len(acc.producerIds) : acc.producerIds[j] = id
                 THEN acc.producerIds ELSE Append(acc.producerIds, id)])

(* the non-empty session dates, as calendar indices *)
sessionDays(sessions) ==
  {DayIndex(Get(sessions[i], "date").s) :
     i \in {j \in 1..Len(sessions) : ~Falsy(Get(sessions[j], "date"))}}

computePO(po, producers) ==
  LET sessions == Get(po, "sessions").el
      days == sessionDays(sessions)
      acc == computeLoop(sessions, producers, 1,
               [price |-> Zero, profit |-> Zero, producerIds |-> <<>>])
  IN [sessionCount |-> Len(sessions),
      startDate |-> IF days = {} THEN ""
                    ELSE Calendar[CHOOSE d \in days : \A e \in days : d <= e],
      endDate |-> IF days = {} THEN ""
                  ELSE Calendar[CHOOSE d \in days : \A e \in days : e <= d],
      price |-> acc.price,
      profit |-> acc.profit,
      producerIds |-> acc.producerIds]

----------------------------------------------------------------------------
(* POsOverview: duplicatePo *)

(* a slip: the copy of a session is built field by field with the default
   units *)
shiftSessionDefaultUnits(s, n) ==
  Obj(<<P("id", uid("se", n)),
        P("date", IF Falsy(Get(s, "date")) THEN Get(s, "date")
                  ELSE Str(addDaysISO(Get(s, "date").s, 7))),
        P("producerId", Get(s, "producerId")), P("units", Num(1))>>)

(* { ...s, id: uid("se"), date: s.date ? addDaysISO(s.date, 7) : s.date },
   n the uid drawn *)
shiftSession(s, n) ==
  Put(Put(Spread(s), "id", uid("se", n)), "date",
      IF Falsy(Get(s, "date")) THEN Get(s, "date")
      ELSE Str(addDaysISO(Get(s, "date").s, 7)))

(* duplicatePo(source): the sessions draw the uids c+1 .. c+n in their
   order, the PO draws c+n+1 *)
duplicatePo(source, c) ==
  LET sessions == Get(source, "sessions").el
      shiftedSessions == [i \in 1..Len(sessions) |-> shiftSession(sessions[i], c + i)]
  IN Put(Put(Put(Spread(source), "id", uid("po", c + Len(sessions) + 1)),
             "poNumber",
             IF Falsy(Get(source, "poNumber")) THEN Str("")
             ELSE Str(Get(source, "poNumber").s \o "-copy")),
         "sessions", Arr(shiftedSessions))

----------------------------------------------------------------------------
(* usePoSort: the comparator and the sorted list *)

JsNeg(a) ==
  CASE a.k = "fin" -> Num(-a.n)
    [] a.k = "pinf" -> NegInf
    [] a.k = "ninf" -> PosInf
    [] OTHER -> NaN

(* a - b *)
JsSub(a, b) == JsAdd(a, JsNeg(b))

(* the texts the columns hold, in the order of the default collation:
   punctuation before digits before letters, case at a lower level; "--"
   stands for the dash safeName returns for an empty id. The ISO dates come
   between "(missing)" and the letters, in the order of the calendar *)
CollationOrder ==
  <<"", "--", "(missing)", "2026", "AI in the workplace", "Aspire to lead", "draft",
    "Essity", "Nestle", "paid", "po_a", "po_b", "po_c", "po_d", "po_n", "PO-10",
    "PO-2", "PO-7", "sent">>

(* the same with the option numeric: digit runs compare as numbers *)
NumericCollationOrder ==
  <<"", "--", "(missing)", "2026", "AI in the workplace", "Aspire to lead", "draft",
    "Essity", "Nestle", "paid", "po_a", "po_b", "po_c", "po_d", "po_n", "PO-2",
    "PO-7", "PO-10", "sent">>

CollationRank(text, order) ==
  IF IsCalendarDate(text)
  THEN 1000 * (CHOOSE i \in 1..Len(order) : order[i] = "2026") + DayIndex(text)
  ELSE 1000 * (CHOOSE i \in 1..Len(order) : order[i] = text)

(* a.localeCompare(b): negative, zero or positive *)
localeCompare(a, b, order) ==
  LET ra == CollationRank(a, order)
      rb == CollationRank(b, order)
  IN IF ra < rb THEN Num(-1) ELSE IF ra > rb THEN Num(1) ELSE Num(0)

(* new Map(list.map((x) => [x.id, x])).get(id)?.name ?? "(missing)", and the
   dash for an empty id *)
safeName(list, id) ==
  IF Falsy(id) THEN "--"
  ELSE LET x == MapGet(list, id) IN
    IF x = Undef THEN "(missing)" ELSE Get(x, "name").s

(* computedByPoId.get(po.id): every PO of the list is a PO of the store, so
   the map holds it *)
computedOf(po, store) == computePO(po, Get(store, "producers").el)

NoSortKey == "null"
SortKeys ==
  {"poNumber", "status", "training", "customer", "producerCount", "sessionCount",
   "price", "profit", "startDate", "endDate"}
SortDirs == {"asc", "desc"}

(* the switch of the comparator; ca and cb are the computed values of a and b *)
compareBy(a, b, ca, cb, sortKey, store) ==
     CASE sortKey = "poNumber" ->
            localeCompare(Get(a, "poNumber").s, Get(b, "poNumber").s,
                          NumericCollationOrder)
       [] sortKey = "status" ->
            localeCompare(Get(a, "status").s, Get(b, "status").s, CollationOrder)
       [] sortKey = "training" ->
            localeCompare(safeName(Get(store, "trainings").el, Get(a, "trainingId")),
                          safeName(Get(store, "trainings").el, Get(b, "trainingId")),
                          CollationOrder)
       [] sortKey = "customer" ->
            localeCompare(safeName(Get(store, "customers").el, Get(a, "customerId")),
                          safeName(Get(store, "customers").el, Get(b, "customerId")),
                          CollationOrder)
       [] sortKey = "producerCount" ->
            JsSub(Num(Len(ca.producerIds)), Num(Len(cb.producerIds)))
       [] sortKey = "sessionCount" ->
            JsSub(Num(ca.sessionCount), Num(cb.sessionCount))
       [] sortKey = "price" -> JsSub(ca.price, cb.price)
       [] sortKey = "profit" -> JsSub(ca.profit, cb.profit)
       [] sortKey = "startDate" -> localeCompare(ca.startDate, cb.startDate, CollationOrder)
       [] sortKey = "endDate" -> localeCompare(ca.endDate, cb.endDate, CollationOrder)

(* const ca = computedByPoId.get(a.id); const cb = computedByPoId.get(b.id);
   then the switch *)
comparePrimary(a, b, sortKey, store) ==
  compareBy(a, b, computedOf(a, store), computedOf(b, store), sortKey, store)

(* if (cmp === 0) cmp = a.id.localeCompare(b.id) *)
tiebreak(cmp, a, b) ==
  IF cmp = Num(0) THEN localeCompare(Get(a, "id").s, Get(b, "id").s, CollationOrder)
  ELSE cmp

(* return sortDir === "asc" ? cmp : -cmp *)
directed(cmp, sortDir) == IF sortDir = "asc" THEN cmp ELSE JsNeg(cmp)

(* the comparator handed to sort *)
comparePo(a, b, sortKey, sortDir, store) ==
  directed(tiebreak(comparePrimary(a, b, sortKey, store), a, b), sortDir)

(* what Array.prototype.sort makes of the comparator's result: its sign, and
   0 for NaN *)
SignOrZero(v) == IF v.k = "nan" THEN 0 ELSE Sign(v)

SortSign(a, b, sortKey, sortDir, store) ==
  SignOrZero(comparePo(a, b, sortKey, sortDir, store))

(* the comparator is consistent over the list: only then does the language
   fix the result of sort *)
ConsistentSigns(v, I) ==
  /\ \A i, j \in I : v[i, j] = -v[j, i]
  /\ \A i, j, k \in I :
       /\ (v[i, j] = 0 /\ v[j, k] = 0) => v[i, k] = 0
       /\ (v[i, j] < 0 /\ v[j, k] < 0) => v[i, k] < 0
       /\ (v[i, j] = 0 /\ v[j, k] < 0) => v[i, k] < 0
       /\ (v[i, j] < 0 /\ v[j, k] = 0) => v[i, k] < 0

ConsistentComparator(list, sortKey, sortDir, store) ==
  \A v \in {[i \in 1..Len(list), j \in 1..Len(list) |->
               SortSign(list[i], list[j], sortKey, sortDir, store)]} :
    ConsistentSigns(v, 1..Len(list))

(* a stable sort: x goes behind the last element that is not greater *)
RECURSIVE InsertPo(_, _, _, _, _)
InsertPo(done, x, sortKey, sortDir, store) ==
  IF done = <<>> THEN <<x>>
  ELSE LET last == done[Len(done)] IN
    IF SortSign(last, x, sortKey, sortDir, store) > 0
    THEN Append(InsertPo(SubSeq(done, 1, Len(done) - 1), x, sortKey, sortDir, store),
                last)
    ELSE Append(done, x)

RECURSIVE SortFrom(_, _, _, _, _, _)
SortFrom(list, i, done, sortKey, sortDir, store) ==
  IF i > Len(list) THEN done
  ELSE SortFrom(list, i + 1, InsertPo(done, list[i], sortKey, sortDir, store),
                sortKey, sortDir, store)

(* the useMemo of sorted *)
sorted(filtered, sortKey, sortDir, store) ==
  IF sortKey = NoSortKey THEN filtered
  ELSE SortFrom(filtered, 1, <<>>, sortKey, sortDir, store)

(* a slip: the third selection goes back to ascending *)
toggleSortTwoState(sortKey, sortDir, key) ==
  IF sortKey = key
  THEN [sortKey |-> key, sortDir |-> IF sortDir = "asc" THEN "desc" ELSE "asc"]
  ELSE [sortKey |-> key, sortDir |-> "asc"]

(* toggleSort(key): the sort key and direction it sets *)
toggleSort(sortKey, sortDir, key) ==
  IF sortKey = key
  THEN IF sortDir = "asc"
       THEN [sortKey |-> sortKey, sortDir |-> "desc"]
       ELSE [sortKey |-> NoSortKey, sortDir |-> "asc"]
  ELSE [sortKey |-> key, sortDir |-> "asc"]

(* setSort(key, dir) *)
setSort(key, dir) == [sortKey |-> key, sortDir |-> dir]

(* clearSort() *)
clearSort == [sortKey |-> NoSortKey, sortDir |-> "asc"]

----------------------------------------------------------------------------
(* POsOverview: the filtered list *)

UpperCase == "ABCDEFGHIJKLMNOPQRSTUVWXYZ"
LowerCase == "abcdefghijklmnopqrstuvwxyz"

(* one character in lower case *)
LowerChar(c) ==
  IF \E i \in 1..Len(UpperCase) : SubSeq(UpperCase, i, i) = c
  THEN LET i == CHOOSE j \in 1..Len(UpperCase) : SubSeq(UpperCase, j, j) = c
       IN SubSeq(LowerCase, i, i)
  ELSE c

RECURSIVE toLowerCase(_)
toLowerCase(text) ==
  IF text = "" THEN ""
  ELSE LowerChar(SubSeq(text, 1, 1)) \o toLowerCase(SubSeq(text, 2, Len(text)))

(* text.trim(): the blanks at both ends go *)
RECURSIVE trim(_)
trim(text) ==
  IF text = "" THEN ""
  ELSE IF SubSeq(text, 1, 1) = " " THEN trim(SubSeq(text, 2, Len(text)))
  ELSE IF SubSeq(text, Len(text), Len(text)) = " "
  THEN trim(SubSeq(text, 1, Len(text) - 1))
  ELSE text

(* text.includes(q) *)
includes(text, q) ==
  \E i \in 1..(Len(text) - Len(q) + 1) : SubSeq(text, i, i + Len(q) - 1) = q

(* a < b on two ISO dates: the order of the code units is the order of the
   calendar *)
DateLess(a, b) == DayIndex(a) < DayIndex(b)

EMPTY_FILTERS ==
  [query |-> "", customerFilter |-> {}, trainingFilter |-> {}, statusFilter |-> {},
   dateFrom |-> "", dateTo |-> ""]

(* map.get(id)?.name ?? "" *)
nameOrEmpty(list, id) ==
  LET x == MapGet(list, id) IN IF x = Undef THEN "" ELSE Get(x, "name").s

(* a slip: with both bounds set, meeting one of them is enough *)
passesDatesEither(po, filters, store) ==
  LET c == computedOf(po, store)
      poStart == c.startDate
      poEnd == c.endDate
  IN /\ ~(poStart = "" /\ poEnd = "")
     /\ \/ (filters.dateFrom # "" /\ ~(poEnd # "" /\ DateLess(poEnd, filters.dateFrom)))
        \/ (filters.dateTo # "" /\ ~(poStart # "" /\ DateLess(filters.dateTo, poStart)))

(* the date range of the PO passes the date criterion *)
passesDates(po, filters, store) ==
  LET c == computedOf(po, store)
      poStart == c.startDate
      poEnd == c.endDate
  IN /\ ~(poStart = "" /\ poEnd = "")
     /\ ~(filters.dateFrom # "" /\ poEnd # "" /\ DateLess(poEnd, filters.dateFrom))
     /\ ~(filters.dateTo # "" /\ poStart # "" /\ DateLess(filters.dateTo, poStart))

(* the callback of store.pos.filter *)
passesFilter(po, filters, store) ==
  LET q == toLowerCase(trim(filters.query)) IN
    /\ (filters.customerFilter # {} => Get(po, "customerId").s \in filters.customerFilter)
    /\ (filters.trainingFilter # {} => Get(po, "trainingId").s \in filters.trainingFilter)
    /\ (filters.statusFilter # {} => Get(po, "status").s \in filters.statusFilter)
    /\ ((filters.dateFrom # "" \/ filters.dateTo # "") => passesDates(po, filters, store))
    /\ \/ q = ""
       \/ includes(toLowerCase(Get(po, "poNumber").s), q)
       \/ includes(toLowerCase(nameOrEmpty(Get(store, "trainings").el,
                                             Get(po, "trainingId"))), q)
       \/ includes(toLowerCase(nameOrEmpty(Get(store, "customers").el,
                                             Get(po, "customerId"))), q)

RECURSIVE filterFrom(_, _, _, _)
filterFrom(pos, i, filters, store) ==
  IF i > Len(pos) THEN <<>>
  ELSE (IF passesFilter(pos[i], filters, store) THEN <<pos[i]>> ELSE <<>>)
         \o filterFrom(pos, i + 1, filters, store)

(* the useMemo of filtered *)
filtered(store, filters) == filterFrom(Get(store, "pos").el, 1, filters, store)

----------------------------------------------------------------------------
(* The stores the model edits with *)

producerA ==
  Obj(<<P("id", Str("pr_a")), P("name", Str("Alex")), P("rate", Num(600)),
        P("markup", Num(200))>>)

sessionA ==
  Obj(<<P("id", Str("se_a")), P("date", Str("2026-01-10")),
        P("producerId", Str("pr_a")), P("units", Num(1))>>)

poA(number) ==
  Obj(<<P("id", Str("po_a")), P("poNumber", Str(number)), P("trainingId", Str("")),
        P("customerId", Str("")), P("status", Str("sent")),
        P("sessions", Arr(<<sessionA>>))>>)

MkStore(pos) ==
  Obj(<<P("version", Num(1)), P("trainings", Arr(<<>>)), P("customers", Arr(<<>>)),
        P("producers", Arr(<<producerA>>)), P("pos", Arr(pos))>>)

StoreA == MkStore(<<poA("PO-1")>>)
StoreB == MkStore(<<poA("PO-2")>>)

RECURSIVE Reverse(_)
Reverse(s) == IF s = <<>> THEN <<>> ELSE Append(Reverse(Tail(s)), Head(s))

(* StoreA built with the keys of the store in the opposite order *)
StoreAk == Obj(Reverse(StoreA.kv))

(* what setDraft is called with *)
DraftInputs == {StoreA, StoreAk, StoreB}

(* what local storage holds when the page loads *)
InitItems == {NoItem, Item(JSONstringify(StoreA))}

(* the auto-save preference in local storage when the page loads *)
NoPref == [present |-> FALSE, text |-> ""]
Pref(text) == [present |-> TRUE, text |-> text]
InitPrefs == {NoPref, Pref("true"), Pref("false")}

(* the record of the user's partition in the cloud table *)
NoCloud == [present |-> FALSE, store |-> Undef]
CloudRecord(store) == [present |-> TRUE, store |-> store]
InitClouds == {NoCloud, CloudRecord(StoreB)}

----------------------------------------------------------------------------
(* useDraftStore *)

AUTO_SAVE_DELAY == 1500
SAVED_DISPLAY_DURATION == 2000
SAVING_DELAY == 300

(* the longest step of the clock, in ms *)
TickMs == 750
(* the burst counter saturates here *)
MaxBurst == 3

VARIABLES
  persisted,    \* useState: the last committed store
  draft,        \* useState: the working copy
  autoSave,     \* useState: the auto-save preference
  saveStatus,   \* useState: "idle", "saving", "saved"
  dirty,        \* useMemo over [persisted, draft]
  debounce,     \* debounceRef: the pending auto-save timer and the draft it holds
  savedTimer,   \* savedTimerRef: the pending status timer
  mounted,      \* the component using the hook is mounted
  lsStore,      \* localStorage[STORAGE_KEY]
  lsAutoSave,   \* localStorage[AUTO_SAVE_KEY]
  uidCtr,       \* the uids drawn so far
  cloud,        \* the user's record in the cloud table
  cloudSync,    \* the store of the saveToCloud call in flight, if any
  lastOp,       \* history: the operation that led to this state
  lastCommit,   \* history: "none", or how the last commit came about
  userActed,    \* history: a user operation has happened since the page loaded
  burst,        \* history: the setDraft calls of the current burst and its commits
  calc          \* the input and output of a function under check

hookVars ==
  <<persisted, draft, autoSave, saveStatus, dirty, debounce, savedTimer, mounted,
    lsAutoSave, uidCtr, cloud, cloudSync, lastOp, lastCommit, userActed,
    burst>>

vars == <<hookVars, lsStore, calc>>

NoTimer == [on |-> FALSE, left |-> 0, data |-> Undef]
Timer(ms, data) == [on |-> TRUE, left |-> ms, data |-> data]
NoSync == [on |-> FALSE, store |-> Undef]
NoBurst == [edits |-> 0, log |-> <<>>]
Off == [pc |-> "off"]

(* loadAutoSavePref() *)
loadAutoSavePref(item) == IF ~item.present THEN TRUE ELSE item.text = "true"

(* a slip: the comparison depends on the order of the keys *)
dirtyOfPlain(p, d) == JSONstringify(p) # JSONstringify(d)

(* the useMemo of dirty; equal values serialise equally, so the first
   conjunct only saves evaluating the second *)
dirtyOf(p, d) == p # d /\ stableStringify(p) # stableStringify(d)

(* a slip: draft is missing from the dependencies, so a pending timer keeps
   the draft of an earlier render *)
autoSaveEffectStale(depsChanged, on, isDirty, d, timer) ==
  IF ~depsChanged THEN timer
  ELSE IF ~on \/ ~isDirty THEN NoTimer
  ELSE IF timer.on THEN timer
  ELSE Timer(AUTO_SAVE_DELAY, d)

(* a slip: the guard of the effect has dirty the wrong way round *)
autoSaveEffectClean(depsChanged, on, isDirty, d, timer) ==
  IF ~depsChanged THEN timer
  ELSE IF ~on \/ isDirty THEN NoTimer
  ELSE Timer(AUTO_SAVE_DELAY, d)

(* a slip: the effect does not look at the auto-save flag *)
autoSaveEffectAlways(depsChanged, on, isDirty, d, timer) ==
  IF ~depsChanged THEN timer
  ELSE IF ~isDirty THEN NoTimer
  ELSE Timer(AUTO_SAVE_DELAY, d)

(* a slip: the effect returns no cleanup, so a timer stays when the effect
   has nothing to set *)
autoSaveEffectNoCleanup(depsChanged, on, isDirty, d, timer) ==
  IF ~depsChanged THEN timer
  ELSE IF ~on \/ ~isDirty THEN timer
  ELSE Timer(AUTO_SAVE_DELAY, d)

(* the auto-save effect after a render: when a dependency changed the old
   effect's cleanup clears the timer, and the new effect sets one when
   auto-save is on and the draft is dirty *)
autoSaveEffect(depsChanged, on, isDirty, d, timer) ==
  IF ~depsChanged THEN timer
  ELSE IF ~on \/ ~isDirty THEN NoTimer
  ELSE Timer(AUTO_SAVE_DELAY, d)

(* a slip: the store written is the one of the last commit *)
doSaveStale(data) ==
  [saveStatus |-> "saving",
   lsStore |-> saveStore(persisted),
   persisted |-> data,
   savedTimer |-> [phase |-> "toSaved", left |-> SAVING_DELAY]]

(* a slip: a status timer that is pending is left running *)
doSaveNoRestart(data) ==
  [saveStatus |-> "saving",
   lsStore |-> saveStore(data),
   persisted |-> data,
   savedTimer |-> IF savedTimer.phase # "none" THEN savedTimer
                  ELSE [phase |-> "toSaved", left |-> SAVING_DELAY]]

(* doSave(data): what it sets *)
doSave(data) ==
  [saveStatus |-> "saving",
   lsStore |-> saveStore(data),
   persisted |-> data,
   savedTimer |-> [phase |-> "toSaved", left |-> SAVING_DELAY]]

NoSavedTimer == [phase |-> "none", left |-> 0]

(* a slip: discard keeps the draft *)
discardKeeps(p, d) == d

(* discard(): the store handed to setDraft *)
discardValue(p, d) == p

(* the initial state of the hook: two calls of loadStore(), one for
   persisted and one for draft, then the first render and its effects *)
InitHook ==
  /\ lsStore \in InitItems
  /\ lsAutoSave \in InitPrefs
  /\ cloud \in InitClouds
  /\ persisted = loadStore(lsStore, 0)
  /\ draft = loadStore(lsStore, IF loadSeeds(lsStore) THEN SeedUids ELSE 0)
  /\ uidCtr = IF loadSeeds(lsStore) THEN 2 * SeedUids ELSE 0
  /\ autoSave = loadAutoSavePref(lsAutoSave)
  /\ saveStatus = "idle"
  /\ dirty = dirtyOf(persisted, draft)
  /\ debounce = autoSaveEffect(TRUE, autoSave, dirty, draft, NoTimer)
  /\ savedTimer = NoSavedTimer
  /\ mounted = TRUE
  /\ cloudSync = NoSync
  /\ lastOp = "init"
  /\ lastCommit = "none"
  /\ userActed = FALSE
  /\ burst = NoBurst

Init == InitHook /\ calc = Off

Min(S) == CHOOSE x \in S : \A y \in S : x <= y

(* the commit of doSave(data), followed by the render *)
Commit(data) ==
  LET r == doSave(data) IN
    /\ saveStatus' = r.saveStatus
    /\ lsStore' = r.lsStore
    /\ persisted' = r.persisted
    /\ savedTimer' = r.savedTimer

(* setDraft(d) from a view, then the render and the auto-save effect *)
SetDraft(d) ==
  /\ mounted
  /\ draft' = d
  /\ dirty' = dirtyOf(persisted, d)
  /\ debounce' = autoSaveEffect(TRUE, autoSave, dirty', d, debounce)
  /\ burst' = IF ~autoSave THEN NoBurst
              ELSE IF burst.edits = 0 \/ ~debounce.on
              THEN [edits |-> 1, log |-> <<>>]
              ELSE [burst EXCEPT !.edits = IF @ < MaxBurst THEN @ + 1 ELSE @]
  /\ lastOp' = "setDraft"
  /\ userActed' = TRUE
  /\ UNCHANGED <<persisted, autoSave, saveStatus, savedTimer, mounted, lsStore,
                 lsAutoSave, uidCtr, cloud, cloudSync, lastCommit, calc>>

(* save(): doSave(draft) *)
Save ==
  /\ mounted
  /\ draft' = draft
  /\ Commit(draft)
  /\ dirty' = dirtyOf(persisted', draft')
  /\ debounce' = autoSaveEffect(dirty' # dirty, autoSave, dirty', draft, debounce)
  /\ lastOp' = "save"
  /\ lastCommit' = "manual"
  /\ userActed' = TRUE
  /\ burst' = NoBurst
  /\ UNCHANGED <<autoSave, mounted, lsAutoSave, uidCtr, cloud, cloudSync, calc>>

(* discard(): setDraft(persisted) *)
Discard ==
  /\ mounted
  /\ draft' = discardValue(persisted, draft)
  /\ dirty' = dirtyOf(persisted, draft')
  /\ debounce' = autoSaveEffect(TRUE, autoSave, dirty', draft', debounce)
  /\ lastOp' = "discard"
  /\ userActed' = TRUE
  /\ burst' = NoBurst
  /\ UNCHANGED <<persisted, autoSave, saveStatus, savedTimer, mounted, lsStore,
                 lsAutoSave, uidCtr, cloud, cloudSync, lastCommit, calc>>

(* the auto-save switch of the app bar: setAutoSave(checked), and save()
   when it is switched on over a dirty draft *)
AutoSaveSwitch ==
  LET checked == ~autoSave IN
    /\ mounted
    /\ autoSave' = checked
    /\ lsAutoSave' = Pref(IF checked THEN "true" ELSE "false")
    /\ draft' = draft
    /\ IF checked /\ dirty
       THEN Commit(draft) /\ lastCommit' = "manual"
       ELSE UNCHANGED <<saveStatus, lsStore, persisted, savedTimer, lastCommit>>
    /\ dirty' = dirtyOf(persisted', draft')
    /\ debounce' = autoSaveEffect(TRUE, checked, dirty', draft, debounce)
    /\ lastOp' = "switch"
    /\ userActed' = TRUE
    /\ burst' = NoBurst
    /\ UNCHANGED <<mounted, uidCtr, cloud, cloudSync, calc>>

(* the debounce timer fires: doSave(the draft of the render that set it);
   a timer that is pending fires whether the component is mounted or not *)
DebounceFire ==
  /\ debounce.on
  /\ debounce.left = 0
  /\ draft' = draft
  /\ Commit(debounce.data)
  /\ dirty' = dirtyOf(persisted', draft')
  /\ debounce' = autoSaveEffect(dirty' # dirty, autoSave, dirty', draft, NoTimer)
  /\ lastOp' = "autoSave"
  /\ lastCommit' = "auto"
  /\ burst' = IF burst.edits > 0 /\ Len(burst.log) < 2
              THEN [burst EXCEPT !.log = Append(@, debounce.data)]
              ELSE burst
  /\ UNCHANGED <<autoSave, mounted, lsAutoSave, uidCtr, cloud, cloudSync,
                 userActed, calc>>

(* the 300 ms timer of doSave fires *)
SavedTimerFire ==
  /\ savedTimer.phase = "toSaved"
  /\ savedTimer.left = 0
  /\ saveStatus' = "saved"
  /\ savedTimer' = [phase |-> "toIdle", left |-> SAVED_DISPLAY_DURATION]
  /\ lastOp' = "savedTimer"
  /\ UNCHANGED <<persisted, draft, autoSave, dirty, debounce, mounted, lsStore,
                 lsAutoSave, uidCtr, cloud, cloudSync, lastCommit, userActed,
                 burst, calc>>

(* the display timer set by the 300 ms timer fires *)
IdleTimerFire ==
  /\ savedTimer.phase = "toIdle"
  /\ savedTimer.left = 0
  /\ saveStatus' = "idle"
  /\ savedTimer' = NoSavedTimer
  /\ lastOp' = "idleTimer"
  /\ UNCHANGED <<persisted, draft, autoSave, dirty, debounce, mounted, lsStore,
                 lsAutoSave, uidCtr, cloud, cloudSync, lastCommit, userActed,
                 burst, calc>>

(* a slip: the cleanups leave the debounce timer pending *)
cleanupDebounceKeeps(timer) == timer

(* if (debounceRef.current) clearTimeout(debounceRef.current), in the
   cleanups of the auto-save effect and of the unmount effect *)
cleanupDebounce(timer) == NoTimer

(* the component unmounts: the cleanups of both effects clear the timers *)
Unmount ==
  /\ mounted
  /\ mounted' = FALSE
  /\ debounce' = cleanupDebounce(debounce)
  /\ savedTimer' = NoSavedTimer
  /\ lastOp' = "unmount"
  /\ userActed' = TRUE
  /\ burst' = NoBurst
  /\ UNCHANGED <<persisted, draft, autoSave, saveStatus, dirty, lsStore,
                 lsAutoSave, uidCtr, cloud, cloudSync, lastCommit, calc>>

(* time passes: up to TickMs, and never past the next timer that is due *)
TimerLefts ==
  (IF debounce.on THEN {debounce.left} ELSE {})
    \cup (IF savedTimer.phase # "none" THEN {savedTimer.left} ELSE {})

Tick ==
  LET d == Min({TickMs} \cup TimerLefts) IN
    /\ 0 \notin TimerLefts
    /\ TimerLefts # {}
    /\ debounce' = IF debounce.on THEN [debounce EXCEPT !.left = @ - d] ELSE debounce
    /\ savedTimer' = IF savedTimer.phase # "none"
                     THEN [savedTimer EXCEPT !.left = @ - d] ELSE savedTimer
    /\ lastOp' = "tick"
    /\ UNCHANGED <<persisted, draft, autoSave, saveStatus, dirty, mounted, lsStore,
                   lsAutoSave, uidCtr, cloud, cloudSync, lastCommit, userActed,
                   burst, calc>>

Next ==
  \/ \E d \in DraftInputs : SetDraft(d)
  \/ Save
  \/ Discard
  \/ AutoSaveSwitch
  \/ DebounceFire
  \/ SavedTimerFire
  \/ IdleTimerFire
  \/ Unmount
  \/ Tick

Spec == Init /\ [][Next]_vars

(* timers that are due fire, and time passes *)
FairSpec ==
  /\ Spec
  /\ WF_vars(Tick)
  /\ WF_vars(DebounceFire)
  /\ WF_vars(SavedTimerFire)
  /\ WF_vars(IdleTimerFire)

----------------------------------------------------------------------------
(* The hook when localStorage.setItem can throw in saveStore *)

(* a slip: setPersisted(data) comes before saveStore(data) *)
doSaveSetsBeforeThrow(data) ==
  [saveStatus |-> "saving",
   lsStore |-> lsStore,
   persisted |-> data,
   savedTimer |-> savedTimer]

(* doSave(data) when saveStore(data) throws: setSaveStatus("saving") has
   been called, the stored text stays, and neither setPersisted nor the
   restart of the status timer is reached *)
doSaveThrows(data) ==
  [saveStatus |-> "saving",
   lsStore |-> lsStore,
   persisted |-> persisted,
   savedTimer |-> savedTimer]

(* the commit of doSave(data) that throws, followed by the render *)
CommitThrows(data) ==
  LET r == doSaveThrows(data) IN
    /\ saveStatus' = r.saveStatus
    /\ lsStore' = r.lsStore
    /\ persisted' = r.persisted
    /\ savedTimer' = r.savedTimer

(* save() whose write throws *)
SaveThrows ==
  /\ mounted
  /\ draft' = draft
  /\ CommitThrows(draft)
  /\ dirty' = dirtyOf(persisted', draft')
  /\ debounce' = autoSaveEffect(dirty' # dirty, autoSave, dirty', draft, debounce)
  /\ lastOp' = "saveThrew"
  /\ userActed' = TRUE
  /\ burst' = NoBurst
  /\ UNCHANGED <<autoSave, mounted, lsAutoSave, uidCtr, cloud, cloudSync,
                 lastCommit, calc>>

(* the switch is turned on over a dirty draft and the write of save()
   throws; the preference has been written before *)
AutoSaveSwitchThrows ==
  /\ mounted
  /\ ~autoSave
  /\ dirty
  /\ autoSave' = TRUE
  /\ lsAutoSave' = Pref("true")
  /\ draft' = draft
  /\ CommitThrows(draft)
  /\ dirty' = dirtyOf(persisted', draft')
  /\ debounce' = autoSaveEffect(TRUE, TRUE, dirty', draft, debounce)
  /\ lastOp' = "switchThrew"
  /\ userActed' = TRUE
  /\ burst' = NoBurst
  /\ UNCHANGED <<mounted, uidCtr, cloud, cloudSync, lastCommit, calc>>

(* the debounce timer fires and the write throws: the timer is spent, and
   no dependency of the effect has changed *)
DebounceFireThrows ==
  /\ debounce.on
  /\ debounce.left = 0
  /\ draft' = draft
  /\ CommitThrows(debounce.data)
  /\ dirty' = dirtyOf(persisted', draft')
  /\ debounce' = autoSaveEffect(dirty' # dirty, autoSave, dirty', draft, NoTimer)
  /\ lastOp' = "autoSaveThrew"
  /\ burst' = NoBurst
  /\ UNCHANGED <<autoSave, mounted, lsAutoSave, uidCtr, cloud, cloudSync,
                 lastCommit, userActed, calc>>

NextFail ==
  \/ Next
  \/ SaveThrows
  \/ AutoSaveSwitchThrows
  \/ DebounceFireThrows

SpecFail == Init /\ [][NextFail]_vars

----------------------------------------------------------------------------
(* App: importJson over the hook *)

(* the message of the SyntaxError JSON.parse throws; the engine words it *)
SyntaxErrorMessage == "Unexpected token"

(* notify(msg, severity); calc holds the notification importJson raised last *)
Toast(msg, severity) == [pc |-> "toast", open |-> TRUE, msg |-> msg, severity |-> severity]

(* a slip: the version of the file is not examined *)
importResultAnyVersion(text) ==
  LET r == JSONparse(text) IN
    IF ~r.ok
    THEN [ok |-> FALSE, v |-> Undef,
          toast |-> Toast("Import failed: " \o SyntaxErrorMessage, "error")]
    ELSE IF Falsy(r.v) \/ ~(IsObj(r.v) \/ IsArr(r.v))
    THEN [ok |-> FALSE, v |-> Undef,
          toast |-> Toast("Import failed: Unsupported format/version", "error")]
    ELSE [ok |-> TRUE, v |-> r.v,
          toast |-> Toast("Imported into draft (remember to Save)", "success")]

(* reader.onload of importJson: the store handed to setDraft, or the error
   caught, and the notification *)
importResult(text) ==
  LET r == JSONparse(text) IN
    IF ~r.ok
    THEN [ok |-> FALSE, v |-> Undef,
          toast |-> Toast("Import failed: " \o SyntaxErrorMessage, "error")]
    ELSE IF Falsy(r.v) \/ ~(IsObj(r.v) \/ IsArr(r.v)) \/ Get(r.v, "version") # Num(1)
    THEN [ok |-> FALSE, v |-> Undef,
          toast |-> Toast("Import failed: Unsupported format/version", "error")]
    ELSE [ok |-> TRUE, v |-> r.v,
          toast |-> Toast("Imported into draft (remember to Save)", "success")]

(* the files the user picks: two stores as exportJson writes them, a store
   of another version, an object without a version, one whose version is
   the text "1", an array, a number, null, and text that is no JSON *)
ImportFiles ==
  {JSONstringify(StoreA), JSONstringify(StoreB),
   JSONstringify(Put(StoreB, "version", Num(2))),
   JSONstringify(Obj(<<P("pos", Arr(<<>>))>>)),
   JSONstringify(Put(StoreB, "version", Str("1"))),
   JSONstringify(Arr(<<Num(1)>>)),
   <<NumTok(1)>>,
   <<NullTok>>,
   <<BadTok>>}

(* importResult of every file, computed once *)
ImportResults == [text \in ImportFiles |-> importResult(text)]

(* the file has been read: reader.onload, then the render and the
   auto-save effect when the draft was set *)
ImportJson(text) ==
  LET r == ImportResults[text] IN
    /\ mounted
    /\ calc' = r.toast
    /\ IF r.ok
       THEN /\ draft' = r.v
            /\ dirty' = dirtyOf(persisted, r.v)
            /\ debounce' = autoSaveEffect(TRUE, autoSave, dirty', r.v, debounce)
            /\ burst' = IF ~autoSave THEN NoBurst
                        ELSE IF burst.edits = 0 \/ ~debounce.on
                        THEN [edits |-> 1, log |-> <<>>]
                        ELSE [burst EXCEPT !.edits = IF @ < MaxBurst THEN @ + 1 ELSE @]
       ELSE UNCHANGED <<draft, dirty, debounce, burst>>
    /\ lastOp' = "importJson"
    /\ userActed' = TRUE
    /\ UNCHANGED <<persisted, autoSave, saveStatus, savedTimer, mounted, lsStore,
                   lsAutoSave, uidCtr, cloud, cloudSync, lastCommit>>

NextImport ==
  \/ \E text \in ImportFiles : ImportJson(text)
  \/ Save
  \/ Discard
  \/ AutoSaveSwitch
  \/ DebounceFire
  \/ SavedTimerFire
  \/ IdleTimerFire
  \/ Tick

(* the page loads signed out, with the auto-save preference absent or off *)
InitImport ==
  /\ Init
  /\ cloud = NoCloud
  /\ lsAutoSave \in {NoPref, Pref("false")}

SpecImport == InitImport /\ [][NextImport]_vars

----------------------------------------------------------------------------
(* Specifications of the functions checked on their own: the hook is not in
   use, its variables hold fixed values *)

HookIdle ==
  /\ persisted = Undef
  /\ draft = Undef
  /\ autoSave = FALSE
  /\ saveStatus = "idle"
  /\ dirty = FALSE
  /\ debounce = NoTimer
  /\ savedTimer = NoSavedTimer
  /\ mounted = FALSE
  /\ lsAutoSave = NoPref
  /\ uidCtr = 0
  /\ cloud = NoCloud
  /\ cloudSync = NoSync
  /\ lastOp = "none"
  /\ lastCommit = "none"
  /\ userActed = FALSE
  /\ burst = NoBurst

(* valid stores: version 1, every PO with a status; the note is absent,
   undefined or a text, the units are any number, the keys come in two orders *)
StatusVals == {Str("draft"), Str("sent"), Str("paid")}
NoteKinds == {"absent", "undef", "text"}
UnitVals == {Num(1), Num(-2), NaN}

MkPO(status, noteKind, units, reversed) ==
  LET se == Obj(<<P("id", Str("se_1")), P("date", Str("")),
                  P("producerId", Str("pr_a")), P("units", units)>>)
      kv == <<P("id", Str("po_1")), P("poNumber", Str("PO-7")),
              P("trainingId", Str("")), P("customerId", Str("")),
              P("status", status), P("sessions", Arr(<<se>>))>>
      kvn == CASE noteKind = "absent" -> kv
               [] noteKind = "undef" -> Append(kv, P("note", Undef))
               [] noteKind = "text" -> Append(kv, P("note", Str("call first")))
  IN Obj(IF reversed THEN Reverse(kvn) ELSE kvn)

ValidPOs ==
  {MkPO(st, nk, u, rev) :
     st \in StatusVals, nk \in NoteKinds, u \in UnitVals, rev \in BOOLEAN}

ValidStores ==
  {MkStore(<<>>)}
    \cup {MkStore(<<po>>) : po \in ValidPOs}
    \cup {MkStore(<<poA("PO-1"), po>>) : po \in ValidPOs}

(* a PO as an older version wrote it: no status, or a null one *)
poNoStatus ==
  Obj(<<P("id", Str("po_old")), P("poNumber", Str("PO-0")), P("trainingId", Str("")),
        P("customerId", Str("")), P("sessions", Arr(<<>>))>>)
poNullStatus == Put(poNoStatus, "status", Null)

(* what another writer, or an older version, may have left under STORAGE_KEY *)
RawItems ==
  {NoItem,
   Item(<<>>),
   Item(<<BadTok>>),
   Item(<<Punct("{")>>),
   Item(<<Punct("{"), StrTok("version"), Punct(":"), NumTok(1), Punct(",")>>),
   Item(JSONstringify(Null)),
   Item(JSONstringify(Num(0))),
   Item(JSONstringify(Num(1))),
   Item(JSONstringify(Str("version"))),
   Item(JSONstringify(Arr(<<>>))),
   Item(JSONstringify(Arr(<<Num(1)>>))),
   Item(JSONstringify(Obj(<<>>))),
   Item(JSONstringify(Put(StoreA, "version", Num(2)))),
   Item(JSONstringify(Put(StoreA, "version", Str("1")))),
   Item(JSONstringify(Obj(<<P("version", Num(1))>>))),
   Item(JSONstringify(Put(StoreA, "pos", Num(3)))),
   Item(JSONstringify(MkStore(<<Null>>))),
   Item(JSONstringify(MkStore(<<poA("PO-1"), Null>>))),
   Item(JSONstringify(MkStore(<<Num(4)>>))),
   Item(JSONstringify(MkStore(<<poNoStatus>>))),
   Item(JSONstringify(MkStore(<<poNullStatus, poA("PO-1")>>))),
   Item(JSONstringify(MkStore(<<poA("PO-1"), poNoStatus>>))),
   Item(JSONstringify(StoreAk))}

StoreCalc(pc, in, out) == [pc |-> pc, in |-> in, out |-> out]

InitStore ==
  /\ HookIdle
  /\ lsStore \in RawItems
  /\ calc = StoreCalc("start", Undef, Undef)

(* saveStore(S) of a valid store *)
SaveStoreStep ==
  \E S \in ValidStores :
    /\ lsStore' = saveStore(S)
    /\ calc' = StoreCalc("saved", S, Undef)
    /\ UNCHANGED hookVars

(* another writer replaces the item *)
OtherWriter ==
  \E item \in RawItems :
    /\ calc.pc = "saved"
    /\ lsStore' = item
    /\ calc' = StoreCalc("start", Undef, Undef)
    /\ UNCHANGED hookVars

(* loadStore(); after a saveStore with no writer in between the step closes
   a round trip *)
LoadStoreStep ==
  /\ calc.pc \in {"start", "saved"}
  /\ calc' = StoreCalc(IF calc.pc = "saved" THEN "roundtrip" ELSE "loaded",
                       calc.in, loadStore(lsStore, uidCtr))
  /\ UNCHANGED <<hookVars, lsStore>>

NextStore == SaveStoreStep \/ OtherWriter \/ LoadStoreStep

SpecStore == InitStore /\ [][NextStore]_vars

(* computePO on a PO and a producer list *)
MaxSessions == 2

(* a finite number so large that twice it overflows *)
Huge == (MAX_VALUE \div 2) + 1

NumVals == {Num(-1), Num(0), Num(2), Num(Huge), NaN, PosInf}
ProducerIdVals == {Str(""), Str("pr_1"), Str("pr_2"), Str("pr_gone")}

MkSession(n, pid, units) ==
  Obj(<<P("id", Str("se_" \o ToString(n))), P("date", Str("")),
        P("producerId", pid), P("units", units)>>)

SessionLists(n) ==
  {[i \in 1..n |-> MkSession(i, f[i][1], f[i][2])] :
     f \in [1..n -> ProducerIdVals \X NumVals]}

(* the POs with n sessions *)
POInputs(n) == {Put(poA("PO-1"), "sessions", Arr(ss)) : ss \in SessionLists(n)}

ProducerInputs ==
  {<<Obj(<<P("id", Str("pr_1")), P("name", Str("One")), P("rate", r),
           P("markup", m)>>),
     Obj(<<P("id", Str("pr_2")), P("name", Str("Two")), P("rate", Num(600)),
           P("markup", Num(200))>>)>> :
     r \in NumVals, m \in NumVals}

InitPO ==
  /\ HookIdle
  /\ lsStore = NoItem
  /\ \E n \in 0..MaxSessions :
       calc \in {[pc |-> "input", po |-> po, producers |-> prs, out |-> Undef] :
                   po \in POInputs(n), prs \in ProducerInputs}

ComputeStep ==
  /\ calc.pc = "input"
  /\ calc' = [calc EXCEPT !.pc = "computed",
                          !.out = computePO(calc.po, calc.producers)]
  /\ UNCHANGED <<hookVars, lsStore>>

NextPO == ComputeStep

SpecPO == InitPO /\ [][NextPO]_vars

(* duplicatePo on a PO, and computePO on the source and on the copy. The
   sessions of a PO are drawn from kinds: producer, units, date, note *)
SessionKinds ==
  {<<Str("pr_1"), Num(2), "2026-01-10", FALSE>>,
   <<Str("pr_1"), Num(-1), "", TRUE>>,
   <<Str("pr_1"), Num(0), "2026-01-31", FALSE>>,
   <<Str("pr_2"), Num(Huge), "2026-01-10", TRUE>>,
   <<Str("pr_2"), NaN, "", FALSE>>,
   <<Str("pr_2"), Num(2), "2026-03-24", FALSE>>,
   <<Str(""), Num(2), "2026-02-25", FALSE>>,
   <<Str("pr_gone"), Num(2), "2026-01-10", TRUE>>}

MkDatedSession(n, kind) ==
  LET se == Obj(<<P("id", Str("se_" \o ToString(n))), P("date", Str(kind[3])),
                  P("producerId", kind[1]), P("units", kind[2])>>)
  IN IF kind[4] THEN Put(se, "note", Str("bring slides")) ELSE se

DatedSessionLists(n) ==
  {[i \in 1..n |-> MkDatedSession(i, f[i])] : f \in [1..n -> SessionKinds]}

PoNumberVals == {Str(""), Str("PO-7")}

(* the POs with n sessions, with and without a number, and with a note *)
DupPOInputs(n) ==
  {Put(Put(Put(poA("PO-1"), "poNumber", nr), "sessions", Arr(ss)), "note", Str("urgent")) :
     nr \in PoNumberVals, ss \in DatedSessionLists(n)}

(* the uids drawn before the duplicate *)
DupUidStart == 40

InitDup ==
  /\ HookIdle
  /\ lsStore = NoItem
  /\ \E n \in 0..MaxSessions :
       calc \in {[pc |-> "input", po |-> po, producers |-> prs, dup |-> Undef,
                  out |-> Undef, outDup |-> Undef] :
                   po \in DupPOInputs(n), prs \in ProducerInputs}

DuplicateStep ==
  /\ calc.pc = "input"
  /\ calc' = [calc EXCEPT !.pc = "duplicated",
                          !.dup = duplicatePo(calc.po, DupUidStart)]
  /\ UNCHANGED <<hookVars, lsStore>>

ComputeBothStep ==
  /\ calc.pc = "duplicated"
  /\ calc' = [calc EXCEPT !.pc = "computed",
                          !.out = computePO(calc.po, calc.producers),
                          !.outDup = computePO(calc.dup, calc.producers)]
  /\ UNCHANGED <<hookVars, lsStore>>

NextDup == DuplicateStep \/ ComputeBothStep

SpecDup == InitDup /\ [][NextDup]_vars

(* usePoSort.sorted on a list of POs of one store and on a permutation of it *)
MaxList == 3

producerBig ==
  Obj(<<P("id", Str("pr_big")), P("name", Str("Big")), P("rate", Num(Huge)),
        P("markup", Num(Huge))>>)

SortStore ==
  Obj(<<P("version", Num(1)),
        P("trainings", Arr(<<Obj(<<P("id", Str("tr_1")), P("name", Str("Aspire to lead"))>>),
                             Obj(<<P("id", Str("tr_2")), P("name", Str("AI in the workplace"))>>)>>)),
        P("customers", Arr(<<Obj(<<P("id", Str("cu_1")), P("name", Str("Essity"))>>)>>)),
        P("producers", Arr(<<producerA, producerBig>>)),
        P("pos", Arr(<<>>))>>)

MkSortPO(id, number, status, training, customer, sessions) ==
  Obj(<<P("id", Str(id)), P("poNumber", Str(number)), P("trainingId", Str(training)),
        P("customerId", Str(customer)), P("status", Str(status)),
        P("sessions", Arr(sessions))>>)

MkSortSession(n, pid, units, date) ==
  Obj(<<P("id", Str("se_" \o ToString(n))), P("date", Str(date)),
        P("producerId", Str(pid)), P("units", Num(units))>>)

(* two POs that tie on price and dates, two of infinite price, one whose
   price is NaN *)
SortPool ==
  {MkSortPO("po_a", "PO-10", "sent", "tr_1", "cu_1",
            <<MkSortSession(1, "pr_a", 2, "2026-01-10")>>),
   MkSortPO("po_b", "PO-2", "draft", "tr_2", "",
            <<MkSortSession(2, "pr_a", 2, "2026-01-10")>>),
   MkSortPO("po_c", "PO-2", "draft", "tr_gone", "cu_1",
            <<MkSortSession(3, "pr_big", 2, "")>>),
   MkSortPO("po_d", "", "paid", "", "cu_gone",
            <<MkSortSession(4, "pr_big", 2, "2026-02-01"),
              MkSortSession(5, "pr_a", 1, "2026-01-10")>>),
   MkSortPO("po_n", "PO-7", "sent", "tr_1", "cu_1",
            <<MkSortSession(6, "pr_big", 0, "")>>)}

Injective(f) == \A i, j \in DOMAIN f : f[i] = f[j] => i = j

(* the lists of n POs with distinct ids *)
SortLists(n) == {l \in [1..n -> SortPool] : Injective(l)}

ListPermutations(list) ==
  {[i \in 1..Len(list) |-> list[f[i]]] :
     f \in {g \in [1..Len(list) -> 1..Len(list)] : Injective(g)}}

InitSort ==
  /\ HookIdle
  /\ lsStore = NoItem
  /\ \E n \in 0..MaxList :
       \E l \in SortLists(n), key \in SortKeys, dir \in SortDirs :
         /\ ConsistentComparator(l, key, dir, SortStore)
         /\ calc = [pc |-> "input", list |-> l, perm |-> l, sortKey |-> key,
                    sortDir |-> dir, out |-> <<>>, outPerm |-> <<>>]

(* the same POs arrive in another order, and both lists are sorted *)
SortStep ==
  /\ calc.pc = "input"
  /\ \E perm \in ListPermutations(calc.list) :
       calc' = [calc EXCEPT
                  !.pc = "sorted",
                  !.perm = perm,
                  !.out = sorted(calc.list, calc.sortKey, calc.sortDir, SortStore),
                  !.outPerm = sorted(perm, calc.sortKey, calc.sortDir, SortStore)]
  /\ UNCHANGED <<hookVars, lsStore>>

NextSort == SortStep

SpecSort == InitSort /\ [][NextSort]_vars

(* POsOverview.filtered under a filter setting and under the same setting
   with one more criterion turned on *)
MaxFilterList == 2

QueryVals == {"", "po-1", " Aspire ", "zzz"}
CustomerFilterVals == {{}, {"cu_1", ""}}
TrainingFilterVals == {{}, {"tr_2"}}
StatusFilterVals == {{}, {"draft", "paid"}}
DateFromVals == {"", "2026-01-15"}
DateToVals == {"", "2026-01-31"}

FilterSettings ==
  [query : QueryVals, customerFilter : CustomerFilterVals,
   trainingFilter : TrainingFilterVals, statusFilter : StatusFilterVals,
   dateFrom : DateFromVals, dateTo : DateToVals]

(* the settings that are f with one criterion that is off in f turned on *)
OneMoreCriterion(f) ==
  {[f EXCEPT !.query = q] : q \in {x \in QueryVals : f.query = "" /\ x # ""}}
    \cup {[f EXCEPT !.customerFilter = c] :
            c \in {x \in CustomerFilterVals : f.customerFilter = {} /\ x # {}}}
    \cup {[f EXCEPT !.trainingFilter = c] :
            c \in {x \in TrainingFilterVals : f.trainingFilter = {} /\ x # {}}}
    \cup {[f EXCEPT !.statusFilter = c] :
            c \in {x \in StatusFilterVals : f.statusFilter = {} /\ x # {}}}
    \cup {[f EXCEPT !.dateFrom = d] : d \in {x \in DateFromVals : f.dateFrom = "" /\ x # ""}}
    \cup {[f EXCEPT !.dateTo = d] : d \in {x \in DateToVals : f.dateTo = "" /\ x # ""}}

InitFilter ==
  /\ HookIdle
  /\ lsStore = NoItem
  /\ \E n \in 0..MaxFilterList :
       \E l \in SortLists(n), f \in FilterSettings :
         calc = [pc |-> "input", store |-> Put(SortStore, "pos", Arr(l)),
                 filters |-> f, more |-> f, out |-> <<>>, outMore |-> <<>>]

FilterStep ==
  /\ calc.pc = "input"
  /\ \E g \in OneMoreCriterion(calc.filters) :
       calc' = [calc EXCEPT !.pc = "filtered",
                            !.more = g,
                            !.out = filtered(calc.store, calc.filters),
                            !.outMore = filtered(calc.store, g)]
  /\ UNCHANGED <<hookVars, lsStore>>

NextFilter == FilterStep

SpecFilter == InitFilter /\ [][NextFilter]_vars

(* usePoSort over a filtered list: the sort key, the direction and the list
   shown. streak is history: the key selected last and how many times in a
   row it has been selected, counted from a selection made while another
   key, or none, was active; 0 when the count is not known *)
NoStreak == [key |-> NoSortKey, n |-> 0]

ConsistentLists(n) ==
  {l \in SortLists(n) :
     \A key \in SortKeys, dir \in SortDirs : ConsistentComparator(l, key, dir, SortStore)}

InitToggle ==
  /\ HookIdle
  /\ lsStore = NoItem
  /\ \E n \in 0..MaxFilterList :
       \E l \in ConsistentLists(n) :
         calc = [pc |-> "view", list |-> l, sortKey |-> NoSortKey, sortDir |-> "asc",
                 shown |-> sorted(l, NoSortKey, "asc", SortStore),
                 isSorting |-> FALSE, streak |-> NoStreak, op |-> "init"]

(* the render after the sort state has been set *)
RenderSort(next, streak, op) ==
  calc' = [calc EXCEPT !.sortKey = next.sortKey,
                       !.sortDir = next.sortDir,
                       !.shown = sorted(calc.list, next.sortKey, next.sortDir, SortStore),
                       !.isSorting = next.sortKey # NoSortKey,
                       !.streak = streak,
                       !.op = op]

ToggleSort(key) ==
  /\ RenderSort(toggleSort(calc.sortKey, calc.sortDir, key),
                IF calc.sortKey # key THEN [key |-> key, n |-> 1]
                ELSE IF calc.streak.key = key /\ calc.streak.n \in 1..2
                THEN [key |-> key, n |-> calc.streak.n + 1]
                ELSE NoStreak,
                "toggleSort")
  /\ UNCHANGED <<hookVars, lsStore>>

SetSort(key, dir) ==
  /\ RenderSort(setSort(key, dir), NoStreak, "setSort")
  /\ UNCHANGED <<hookVars, lsStore>>

ClearSort ==
  /\ RenderSort(clearSort, NoStreak, "clearSort")
  /\ UNCHANGED <<hookVars, lsStore>>

NextToggle ==
  \/ \E key \in SortKeys : ToggleSort(key)
  \/ \E key \in SortKeys \cup {NoSortKey}, dir \in SortDirs : SetSort(key, dir)
  \/ ClearSort

SpecToggle == InitToggle /\ [][NextToggle]_vars

----------------------------------------------------------------------------
(* The cloud adapter: saveToCloud and loadFromCloud over the table *)

ROW_KEY == "store-v1"
(* the size of a chunk, counted in tokens of the JSON text and scaled down *)
MAX_PROPERTY_SIZE == 16

(* the characters the keys keep: a sample of a-zA-Z0-9._- *)
KeySafeChars == "abcdtxAB0123._-"

(* one character of id.replace(/[^a-zA-Z0-9._-]/g, "_") *)
ReplaceChar(c) ==
  IF \E i \in 1..Len(KeySafeChars) : SubSeq(KeySafeChars, i, i) = c THEN c ELSE "_"

RECURSIVE ReplaceUnsafe(_)
ReplaceUnsafe(id) ==
  IF id = "" THEN ""
  ELSE ReplaceChar(SubSeq(id, 1, 1)) \o ReplaceUnsafe(SubSeq(id, 2, Len(id)))

(* AccountInfo: the two identifiers the adapter reads *)
Account(localAccountId, homeAccountId) ==
  [localAccountId |-> localAccountId, homeAccountId |-> homeAccountId]

(* account.localAccountId ?? account.homeAccountId ?? "" *)
AccountId(account) ==
  Nullish(Nullish(account.localAccountId, account.homeAccountId), Str("")).s

Thrown(msg) == [ok |-> FALSE, v |-> Undef, error |-> msg]
Returned(v) == [ok |-> TRUE, v |-> v, error |-> ""]

(* getUserIdentifier(account) *)
getUserIdentifier(account) ==
  IF AccountId(account) = "" THEN Thrown("No authenticated account")
  ELSE Returned(ReplaceUnsafe(AccountId(account)))

(* getAuthenticatedAccount(instance): instance.getAllAccounts()[0] *)
getAuthenticatedAccount(accounts) ==
  IF accounts = <<>> THEN Thrown("Authentication expired. Please log in again.")
  ELSE Returned(accounts[1])

(* chunkString(str, size) from index i on *)
RECURSIVE chunkFrom(_, _, _)
chunkFrom(str, size, i) ==
  IF i > Len(str) THEN <<>>
  ELSE <<SubSeq(str, i, IF i + size - 1 < Len(str) THEN i + size - 1 ELSE Len(str))>>
         \o chunkFrom(str, size, i + size)

(* a slip: the loop stops before a chunk that would not be full *)
chunkStringFullOnly(str, size) ==
  chunkFrom(SubSeq(str, 1, (Len(str) \div size) * size), size, 1)

chunkString(str, size) == chunkFrom(str, size, 1)

(* new Date().toISOString() *)
NowISO == Today \o "T00:00:00.000Z"

(* the entity saveToCloud builds; data[i + 1] is the property data_i *)
StoreEntity(partitionKey, store) ==
  LET chunks == chunkString(JSONstringify(store), MAX_PROPERTY_SIZE) IN
    [partitionKey |-> partitionKey, rowKey |-> ROW_KEY, updatedAt |-> NowISO,
     chunkCount |-> Len(chunks), version |-> "1.0", data |-> chunks]

(* client.upsertEntity(entity, "Replace") *)
upsertEntity(table, entity) ==
  {e \in table : ~(e.partitionKey = entity.partitionKey /\ e.rowKey = entity.rowKey)}
    \cup {entity}

(* client.getEntity(partitionKey, rowKey): a 404 when there is none *)
getEntity(table, partitionKey, rowKey) ==
  IF \E e \in table : e.partitionKey = partitionKey /\ e.rowKey = rowKey
  THEN Returned(CHOOSE e \in table : e.partitionKey = partitionKey /\ e.rowKey = rowKey)
  ELSE Thrown("404")

RECURSIVE joinChunks(_, _, _)
joinChunks(data, i, chunkCount) ==
  IF i >= chunkCount THEN <<>>
  ELSE data[i + 1] \o joinChunks(data, i + 1, chunkCount)

(* loadFromCloud once the entity is there *)
parseEntity(entity) ==
  LET r == JSONparse(joinChunks(entity.data, 0, entity.chunkCount)) IN
    IF ~r.ok THEN Thrown(SyntaxErrorMessage)
    ELSE IF Falsy(r.v) \/ ~(IsObj(r.v) \/ IsArr(r.v)) \/ Get(r.v, "version") # Num(1)
    THEN Returned(Null)
    ELSE Returned([store |-> r.v, updatedAt |-> entity.updatedAt])

(* the first two lines of saveToCloud and of loadFromCloud *)
partitionOf(accounts) ==
  LET account == getAuthenticatedAccount(accounts) IN
    IF ~account.ok THEN account ELSE getUserIdentifier(account.v)

(* the accounts that sign in: object ids of the tenant, identifiers of
   another provider with characters the keys do not keep, an account with
   no local identifier and one with an empty one *)
AccountPool ==
  {Account(Str("0a-1b"), Str("0a-1b.t1")),
   Account(Str("a/b"), Str("a/b.t1")),
   Account(Str("a_b"), Str("a_b.t1")),
   Account(Undef, Str("0c-2d.t1")),
   Account(Str(""), Str("x.t1"))}

NoResult == [ok |-> TRUE, v |-> Undef, error |-> ""]

(* owners is history: who wrote the entity of each partition last *)
InitCloud ==
  /\ HookIdle
  /\ lsStore = NoItem
  /\ calc = [pc |-> "cloud", accounts |-> <<>>, table |-> {}, owners |-> {},
             op |-> "init", result |-> NoResult]

(* the redirect comes back from the identity provider with an account *)
LoginRedirect(account) ==
  /\ calc.accounts = <<>>
  /\ calc' = [calc EXCEPT !.accounts = <<account>>, !.op = "login", !.result = NoResult]
  /\ UNCHANGED <<hookVars, lsStore>>

(* handleLogout: instance.logoutRedirect() *)
LogoutRedirect ==
  /\ calc.accounts # <<>>
  /\ calc' = [calc EXCEPT !.accounts = <<>>, !.op = "logout", !.result = NoResult]
  /\ UNCHANGED <<hookVars, lsStore>>

SaveToCloudStep(store) ==
  LET key == partitionOf(calc.accounts) IN
    /\ calc' =
         IF ~key.ok
         THEN [calc EXCEPT !.op = "saveToCloud", !.result = key]
         ELSE [calc EXCEPT
                 !.op = "saveToCloud",
                 !.result = Returned(Undef),
                 !.table = upsertEntity(@, StoreEntity(key.v, store)),
                 !.owners = {o \in @ : o.partitionKey # key.v}
                             \cup {[partitionKey |-> key.v,
                                    account |-> calc.accounts[1]]}]
    /\ UNCHANGED <<hookVars, lsStore>>

LoadFromCloudStep ==
  LET key == partitionOf(calc.accounts)
      entity == getEntity(calc.table, key.v, ROW_KEY)
  IN
    /\ calc' = [calc EXCEPT
                  !.op = "loadFromCloud",
                  !.result = IF ~key.ok THEN key
                             ELSE IF ~entity.ok THEN Returned(Null)
                             ELSE parseEntity(entity.v)]
    /\ UNCHANGED <<hookVars, lsStore>>

NextCloud ==
  \/ \E account \in AccountPool : LoginRedirect(account)
  \/ LogoutRedirect
  \/ \E store \in {StoreA, StoreB} : SaveToCloudStep(store)
  \/ LoadFromCloudStep

SpecCloud == InitCloud /\ [][NextCloud]_vars

----------------------------------------------------------------------------
(* The views over the draft: POsOverview with POEditorDrawer and
   SessionsEditor, SimpleEntityManager, ProducersManager *)

(* the uids one page draws at most *)
MaxUids == 2
(* the POs the list holds at most *)
MaxPos == 2
(* the sessions the editor holds at most *)
MaxEditorSessions == 2

RECURSIVE findIndex(_, _, _)
(* list.findIndex((x) => x.id === id), from index i on; 0 stands for -1 *)
findIndex(list, id, i) ==
  IF i > Len(list) THEN 0
  ELSE IF Get(list[i], "id") = id THEN i
  ELSE findIndex(list, id, i + 1)

(* list.filter((x) => x.id !== id) *)
RECURSIVE filterOutId(_, _)
filterOutId(list, id) ==
  IF list = <<>> THEN <<>>
  ELSE IF Get(Head(list), "id") # id THEN <<Head(list)>> \o filterOutId(Tail(list), id)
  ELSE filterOutId(Tail(list), id)

(* list.map((x) => (x.id === id ? next : x)) *)
replaceById(list, id, next) ==
  [i \in 1..Len(list) |-> IF Get(list[i], "id") = id THEN next ELSE list[i]]

(* arrayMove(list, from, to) of @dnd-kit/sortable: the element leaves its
   place and enters at index to *)
arrayMove(list, from, to) ==
  LET rest == SubSeq(list, 1, from - 1) \o SubSeq(list, from + 1, Len(list))
  IN SubSeq(rest, 1, to - 1) \o <<list[from]>> \o SubSeq(rest, to, Len(rest))

(* existingPoNumbers: the trimmed numbers of the other POs *)
existingPoNumbers(store, editingPo) ==
  LET excludeId == Nullish(Get(editingPo, "id"), Str("")) IN
    {trim(Get(PosIn, "poNumber").s) :
       PosIn \in {po \in {Get(store, "pos").el[i] : i \in 1..Len(Get(store, "pos").el)} :
                    Get(po, "id") # excludeId /\ trim(Get(po, "poNumber").s) # ""}}

isDuplicatePoNumber(local, existing) ==
  trim(Get(local, "poNumber").s) # "" /\ trim(Get(local, "poNumber").s) \in existing

(* a slip: a number that exists already does not disable Apply *)
hasCoreWarnOnly(local, existing) ==
  /\ trim(Get(local, "poNumber").s) # ""
  /\ ~Falsy(Get(local, "trainingId"))
  /\ ~Falsy(Get(local, "customerId"))

(* hasCore: the Apply button is disabled without it *)
hasCore(local, existing) ==
  /\ trim(Get(local, "poNumber").s) # ""
  /\ ~isDuplicatePoNumber(local, existing)
  /\ ~Falsy(Get(local, "trainingId"))
  /\ ~Falsy(Get(local, "customerId"))

(* ...(x.note?.trim() ? { note: x.note.trim() } : {}) *)
withTrimmedNote(target, x) ==
  IF Get(x, "note").t = "str" /\ trim(Get(x, "note").s) # ""
  THEN Put(target, "note", Str(trim(Get(x, "note").s)))
  ELSE target

(* apply(): the sanitized PO *)
sanitizePo(local) ==
  LET sessions == Get(local, "sessions").el
      clean(x) == withTrimmedNote(
                    Put(Spread(x), "units",
                        clampNonNegative(Nullish(Get(x, "units"), Num(0)))), x)
  IN Put(withTrimmedNote(Put(Spread(local), "poNumber",
                             Str(trim(Get(local, "poNumber").s))), local),
         "sessions", Arr([i \in 1..Len(sessions) |-> clean(sessions[i])]))

(* onApply(po) *)
onApply(store, po, drawerMode) ==
  IF drawerMode = "new"
  THEN Put(Spread(store), "pos", Arr(<<po>> \o Get(store, "pos").el))
  ELSE Put(Spread(store), "pos",
           Arr(replaceById(Get(store, "pos").el, Get(po, "id"), po)))

(* the PO openNew() hands to the editor *)
newPo(c) ==
  Obj(<<P("id", uid("po", c + 1)), P("poNumber", Str("")), P("trainingId", Str("")),
        P("customerId", Str("")), P("status", Str("draft")), P("sessions", Arr(<<>>))>>)

(* JSON.parse(JSON.stringify(po)) *)
jsonCopy(v) == JSONparse(JSONstringify(v)).v

(* removePo(id) *)
removePo(store, id) ==
  Put(Spread(store), "pos", Arr(filterOutId(Get(store, "pos").el, id)))

(* markPaid(id) *)
markPaid(store, id) ==
  LET pos == Get(store, "pos").el IN
    Put(Spread(store), "pos",
        Arr([i \in 1..Len(pos) |->
               IF Get(pos[i], "id") = id
               THEN Put(Spread(pos[i]), "status", Str("paid")) ELSE pos[i]]))

(* a slip: the copy keeps the id of its source *)
duplicateInFrontSameId(store, po, c) ==
  Put(Spread(store), "pos",
      Arr(<<Put(duplicatePo(po, c), "id", Get(po, "id"))>> \o Get(store, "pos").el))

(* a slip: the copy is put behind the POs of the draft *)
duplicateAtBack(store, po, c) ==
  Put(Spread(store), "pos", Arr(Get(store, "pos").el \o <<duplicatePo(po, c)>>))

(* the duplicate button: onChange({ ...store, pos: [duplicatePo(po), ...store.pos] }) *)
duplicateInFront(store, po, c) ==
  Put(Spread(store), "pos", Arr(<<duplicatePo(po, c)>> \o Get(store, "pos").el))

(* a slip: the handler does not look at isSorting *)
onDragEndWhileSorting(store, isSorting, activeId, overId) ==
  IF overId = "" \/ activeId = overId THEN store
  ELSE IF findIndex(Get(store, "pos").el, Str(activeId), 1) = 0
          \/ findIndex(Get(store, "pos").el, Str(overId), 1) = 0
  THEN store
  ELSE Put(Spread(store), "pos",
           Arr(arrayMove(Get(store, "pos").el,
                         findIndex(Get(store, "pos").el, Str(activeId), 1),
                         findIndex(Get(store, "pos").el, Str(overId), 1))))

(* onDragEnd(e) of POsOverview: the store handed to onChange, or the store
   as it is where the handler returns early; overId is "" for no target *)
onDragEnd(store, isSorting, activeId, overId) ==
  LET pos == Get(store, "pos").el
      oldIndex == findIndex(pos, Str(activeId), 1)
      newIndex == findIndex(pos, Str(overId), 1)
  IN IF isSorting \/ overId = "" \/ activeId = overId THEN store
     ELSE IF oldIndex = 0 \/ newIndex = 0 THEN store
     ELSE Put(Spread(store), "pos", Arr(arrayMove(pos, oldIndex, newIndex)))

(* SessionsEditor: Add session *)
addSession(sessions, c) ==
  sessions \o <<Obj(<<P("id", uid("se", c + 1)), P("date", Str(todayISO)),
                      P("producerId", Str("")), P("units", Num(1))>>)>>

(* SessionsEditor: onDuplicate of the card of session x *)
duplicateSession(sessions, x, c) == sessions \o <<shiftSession(x, c + 1)>>

(* SessionsEditor: onRemove of the card of session x *)
removeSession(sessions, x) == filterOutId(sessions, Get(x, "id"))

(* SimpleEntityManager.upsert(entity) over the rows of the draft; the rows
   as they are when the trimmed name is empty *)
upsert(prev, entity) ==
  LET name == trim(Get(entity, "name").s)
      existingIndex == findIndex(prev, Get(entity, "id"), 1)
      named == Put(Spread(entity), "name", Str(name))
  IN IF name = "" THEN prev
     ELSE IF existingIndex > 0 THEN [prev EXCEPT ![existingIndex] = named]
     ELSE <<named>> \o prev

(* ProducersManager.upsert(entity) *)
upsertProducer(prev, entity) ==
  LET name == trim(Get(entity, "name").s)
      i == findIndex(prev, Get(entity, "id"), 1)
      sanitized == Put(Put(Put(Spread(entity), "name", Str(name)),
                           "rate", clampNonNegative(Get(entity, "rate"))),
                       "markup", clampNonNegative(Get(entity, "markup")))
  IN IF name = "" THEN prev
     ELSE IF i > 0 THEN [prev EXCEPT ![i] = sanitized]
     ELSE <<sanitized>> \o prev

(* remove(id) of both managers *)
remove(rows, id) == filterOutId(rows, id)

(* the collection a view edits *)
RowsKey(view) == view

EntityViews == {"trainings", "customers", "producers"}

(* the entity the Add button of a manager hands to the dialog *)
newEntity(view, c) ==
  IF view = "producers"
  THEN Obj(<<P("id", uid("pr", c + 1)), P("name", Str("")), P("rate", Num(0)),
             P("markup", Num(0))>>)
  ELSE Obj(<<P("id", uid("e", c + 1)), P("name", Str(""))>>)

(* the draft when the page is opened: one training, one customer, one
   producer, and one PO with a session *)
trainingA == Obj(<<P("id", Str("tr_1")), P("name", Str("Aspire"))>>)
customerA == Obj(<<P("id", Str("cu_1")), P("name", Str("Essity"))>>)

poCore(number) ==
  Obj(<<P("id", Str("po_a")), P("poNumber", Str(number)), P("trainingId", Str("tr_1")),
        P("customerId", Str("cu_1")), P("status", Str("sent")),
        P("sessions", Arr(<<sessionA>>))>>)

ViewStore(pos) ==
  Obj(<<P("version", Num(1)), P("trainings", Arr(<<trainingA>>)),
        P("customers", Arr(<<customerA>>)), P("producers", Arr(<<producerA>>)),
        P("pos", Arr(pos))>>)

(* what the user types into the PO number field *)
PoNumberTexts == {" PO-1 ", "PO-2"}
(* what the user types into the name field of a manager *)
NameTexts == {" ", "Coaching "}

NoDrawer == [open |-> FALSE, mode |-> "new", editingPo |-> Null, local |-> Null]
NoDialog == [open |-> FALSE, editing |-> Null]

(* calc.store is the draft and calc.view the tab of App that is shown; every
   view edits a collection of its own. The drawer and the dialog are read
   only while open, so a closed one is kept as NoDrawer or NoDialog *)
InitViews ==
  /\ HookIdle
  /\ lsStore = NoItem
  /\ \E view \in {"pos"} \cup EntityViews :
       calc = [pc |-> "views", store |-> ViewStore(<<poCore("PO-1")>>), view |-> view,
               ctr |-> 0,
               drawer |-> NoDrawer, dialog |-> NoDialog, op |-> "init"]

Pos == Get(calc.store, "pos").el

OpenNew ==
  /\ calc.view = "pos" /\ ~calc.drawer.open
  /\ calc.ctr < MaxUids
  /\ calc' = [calc EXCEPT
               !.drawer = [open |-> TRUE, mode |-> "new", editingPo |-> newPo(calc.ctr),
                           local |-> newPo(calc.ctr)],
               !.ctr = @ + 1, !.op = "openNew"]
  /\ UNCHANGED <<hookVars, lsStore>>

OpenEdit(i) ==
  /\ calc.view = "pos" /\ ~calc.drawer.open
  /\ i \in 1..Len(Pos)
  /\ calc' = [calc EXCEPT
               !.drawer = [open |-> TRUE, mode |-> "edit", editingPo |-> jsonCopy(Pos[i]),
                           local |-> jsonCopy(Pos[i])],
               !.op = "openEdit"]
  /\ UNCHANGED <<hookVars, lsStore>>

(* a field of the editor changes: setLocal((p) => ({ ...p, [key]: value })) *)
SetLocal(key, value) ==
  /\ calc.view = "pos" /\ calc.drawer.open
  /\ calc' = [calc EXCEPT !.drawer.local = Put(Spread(@), key, value), !.op = "setLocal"]
  /\ UNCHANGED <<hookVars, lsStore>>

LocalSessions == Get(calc.drawer.local, "sessions").el

AddSession ==
  /\ calc.view = "pos" /\ calc.drawer.open
  /\ calc.ctr < MaxUids /\ Len(LocalSessions) < MaxEditorSessions
  /\ calc' = [calc EXCEPT
               !.drawer.local = Put(Spread(@), "sessions",
                                    Arr(addSession(LocalSessions, calc.ctr))),
               !.ctr = @ + 1, !.op = "addSession"]
  /\ UNCHANGED <<hookVars, lsStore>>

DuplicateSession(i) ==
  /\ calc.view = "pos" /\ calc.drawer.open
  /\ calc.ctr < MaxUids /\ Len(LocalSessions) < MaxEditorSessions
  /\ i \in 1..Len(LocalSessions)
  /\ calc' = [calc EXCEPT
               !.drawer.local = Put(Spread(@), "sessions",
                                    Arr(duplicateSession(LocalSessions, LocalSessions[i],
                                                         calc.ctr))),
               !.ctr = @ + 1, !.op = "duplicateSession"]
  /\ UNCHANGED <<hookVars, lsStore>>

RemoveSession(i) ==
  /\ calc.view = "pos" /\ calc.drawer.open
  /\ i \in 1..Len(LocalSessions)
  /\ calc' = [calc EXCEPT
               !.drawer.local = Put(Spread(@), "sessions",
                                    Arr(removeSession(LocalSessions, LocalSessions[i]))),
               !.op = "removeSession"]
  /\ UNCHANGED <<hookVars, lsStore>>

(* the Apply button: apply(), that is onApply(sanitized) and onClose() *)
Apply ==
  /\ calc.view = "pos" /\ calc.drawer.open
  /\ hasCore(calc.drawer.local, existingPoNumbers(calc.store, calc.drawer.editingPo))
  /\ calc' = [calc EXCEPT
               !.store = onApply(@, sanitizePo(calc.drawer.local), calc.drawer.mode),
               !.drawer = NoDrawer, !.op = "apply"]
  /\ UNCHANGED <<hookVars, lsStore>>

(* Cancel, or the drawer's own onClose *)
CloseDrawer ==
  /\ calc.view = "pos" /\ calc.drawer.open
  /\ calc' = [calc EXCEPT !.drawer = NoDrawer, !.op = "closeDrawer"]
  /\ UNCHANGED <<hookVars, lsStore>>

DuplicatePoStep(i) ==
  /\ calc.view = "pos" /\ ~calc.drawer.open
  /\ i \in 1..Len(Pos)
  /\ Len(Pos) < MaxPos
  /\ calc.ctr + Len(Get(Pos[i], "sessions").el) < MaxUids
  /\ calc' = [calc EXCEPT
               !.store = duplicateInFront(@, Pos[i], calc.ctr),
               !.ctr = @ + Len(Get(Pos[i], "sessions").el) + 1,
               !.op = "duplicatePo"]
  /\ UNCHANGED <<hookVars, lsStore>>

RemovePo(i) ==
  /\ calc.view = "pos" /\ ~calc.drawer.open
  /\ i \in 1..Len(Pos)
  /\ calc' = [calc EXCEPT !.store = removePo(@, Get(Pos[i], "id")), !.op = "removePo"]
  /\ UNCHANGED <<hookVars, lsStore>>

MarkPaid(i) ==
  /\ calc.view = "pos" /\ ~calc.drawer.open
  /\ i \in 1..Len(Pos)
  /\ calc' = [calc EXCEPT !.store = markPaid(@, Get(Pos[i], "id")), !.op = "markPaid"]
  /\ UNCHANGED <<hookVars, lsStore>>

(* a row is dropped on row j, or outside every row (j = 0), while no sort
   key is active *)
DragEnd(i, j) ==
  /\ calc.view = "pos" /\ ~calc.drawer.open
  /\ i \in 1..Len(Pos)
  /\ j \in 0..Len(Pos)
  /\ calc' = [calc EXCEPT
               !.store = onDragEnd(@, FALSE, Get(Pos[i], "id").s,
                                   IF j = 0 THEN "" ELSE Get(Pos[j], "id").s),
               !.op = "dragEnd"]
  /\ UNCHANGED <<hookVars, lsStore>>

Rows == Get(calc.store, RowsKey(calc.view)).el

(* the Add button of a manager *)
EntityNew ==
  /\ calc.view \in EntityViews /\ ~calc.dialog.open
  /\ calc.ctr < MaxUids
  /\ calc' = [calc EXCEPT
               !.dialog = [open |-> TRUE, editing |-> newEntity(calc.view, calc.ctr)],
               !.ctr = @ + 1, !.op = "entityNew"]
  /\ UNCHANGED <<hookVars, lsStore>>

(* the edit button of a row *)
EntityEdit(i) ==
  /\ calc.view \in EntityViews /\ ~calc.dialog.open
  /\ i \in 1..Len(Rows)
  /\ calc' = [calc EXCEPT !.dialog = [open |-> TRUE, editing |-> Rows[i]],
                          !.op = "entityEdit"]
  /\ UNCHANGED <<hookVars, lsStore>>

(* the name field: setEditing((p) => (p ? { ...p, name: value } : p)) *)
EntitySetName(name) ==
  /\ calc.view \in EntityViews /\ calc.dialog.open
  /\ calc' = [calc EXCEPT !.dialog.editing = Put(Spread(@), "name", Str(name)),
                          !.op = "entitySetName"]
  /\ UNCHANGED <<hookVars, lsStore>>

(* Apply to draft, or Enter in the name field: upsert(editing), setOpen(false);
   the button is disabled while the trimmed name is empty, Enter is not *)
EntityApply ==
  /\ calc.view \in EntityViews /\ calc.dialog.open
  /\ calc' = [calc EXCEPT
               !.store = Put(Spread(@), RowsKey(calc.view),
                             Arr(IF calc.view = "producers"
                                 THEN upsertProducer(Rows, calc.dialog.editing)
                                 ELSE upsert(Rows, calc.dialog.editing))),
               !.dialog = NoDialog, !.op = "entityApply"]
  /\ UNCHANGED <<hookVars, lsStore>>

EntityClose ==
  /\ calc.view \in EntityViews /\ calc.dialog.open
  /\ calc' = [calc EXCEPT !.dialog = NoDialog, !.op = "entityClose"]
  /\ UNCHANGED <<hookVars, lsStore>>

EntityRemove(i) ==
  /\ calc.view \in EntityViews /\ ~calc.dialog.open
  /\ i \in 1..Len(Rows)
  /\ calc' = [calc EXCEPT
               !.store = Put(Spread(@), RowsKey(calc.view),
                             Arr(remove(Rows, Get(Rows[i], "id")))),
               !.op = "entityRemove"]
  /\ UNCHANGED <<hookVars, lsStore>>

NextViews ==
  \/ OpenNew
  \/ \E i \in 1..MaxPos : OpenEdit(i)
  \/ \E text \in PoNumberTexts : SetLocal("poNumber", Str(text))
  \/ SetLocal("trainingId", Str("tr_1"))
  \/ SetLocal("customerId", Str("cu_1"))
  \/ AddSession
  \/ \E i \in 1..MaxEditorSessions : DuplicateSession(i)
  \/ \E i \in 1..MaxEditorSessions : RemoveSession(i)
  \/ Apply
  \/ CloseDrawer
  \/ \E i \in 1..MaxPos : DuplicatePoStep(i)
  \/ \E i \in 1..MaxPos : RemovePo(i)
  \/ \E i \in 1..MaxPos : MarkPaid(i)
  \/ \E i \in 1..MaxPos, j \in 0..MaxPos : DragEnd(i, j)
  \/ EntityNew
  \/ \E i \in 1..MaxPos : EntityEdit(i)
  \/ \E name \in NameTexts : EntitySetName(name)
  \/ EntityApply
  \/ EntityClose
  \/ \E i \in 1..MaxPos : EntityRemove(i)

SpecViews == InitViews /\ [][NextViews]_vars

----------------------------------------------------------------------------
(* stableStringify on a store, on the same store with its keys in another
   order, on a deep copy and on the store with two elements of an array
   exchanged *)

(* the objects of v built with their keys in another order: reversed, or
   with the first key moved to the end *)
RECURSIVE ReKey(_, _)
ReKey(v, order) ==
  CASE v.t = "obj" ->
         LET kv == [i \in 1..Len(v.kv) |-> P(v.kv[i].k, ReKey(v.kv[i].v, order))]
         IN Obj(IF order = "reversed" THEN Reverse(kv)
                ELSE IF kv = <<>> THEN kv ELSE Append(Tail(kv), Head(kv)))
    [] v.t = "arr" -> Arr([i \in 1..Len(v.el) |-> ReKey(v.el[i], order)])
    [] OTHER -> v

KeyOrders == {"reversed", "rotated"}

(* the array under key of the store with the elements at i and j exchanged *)
Exchange(store, key, i, j) ==
  LET el == Get(store, key).el IN
    Put(store, key, Arr([el EXCEPT ![i] = el[j], ![j] = el[i]]))

ArrayKeys == {"trainings", "producers", "pos"}

(* the stores the views build: the entities of SortStore and up to
   MaxFilterList POs with distinct ids *)
StringifyStores(n) == {Put(SortStore, "pos", Arr(l)) : l \in SortLists(n)}

InitStringify ==
  /\ HookIdle
  /\ lsStore = NoItem
  /\ \E n \in 0..MaxFilterList :
       \E store \in StringifyStores(n), order \in KeyOrders, key \in ArrayKeys :
         /\ Len(Get(store, key).el) = 2
         /\ calc = [pc |-> "input", store |-> store,
                    rekeyed |-> ReKey(store, order),
                    copy |-> jsonCopy(store),
                    exchanged |-> Exchange(store, key, 1, 2),
                    out |-> <<>>, outRekeyed |-> <<>>, outCopy |-> <<>>,
                    outExchanged |-> <<>>]

StringifyStep ==
  /\ calc.pc = "input"
  /\ calc' = [calc EXCEPT !.pc = "done",
                          !.out = stableStringify(calc.store),
                          !.outRekeyed = stableStringify(calc.rekeyed),
                          !.outCopy = stableStringify(calc.copy),
                          !.outExchanged = stableStringify(calc.exchanged)]
  /\ UNCHANGED <<hookVars, lsStore>>

NextStringify == StringifyStep

SpecStringify == InitStringify /\ [][NextStringify]_vars

----------------------------------------------------------------------------
(* POsOverview: the duplicate button over a draft of several POs *)

poB ==
  MkSortPO("po_b", "PO-2", "draft", "tr_2", "",
           <<MkSortSession(9, "pr_a", 2, "2026-01-10")>>)
poC == MkSortPO("po_c", "", "paid", "", "", <<>>)

(* the PO lists of the drafts: a PO of the pool alone, first, last, and
   between two others *)
DupLists(n) ==
  UNION {{<<po>>, <<po, poB>>, <<poB, po>>, <<poB, po, poC>>} : po \in DupPOInputs(n)}

InitDupList ==
  /\ HookIdle
  /\ lsStore = NoItem
  /\ \E n \in 0..MaxSessions :
       \E l \in DupLists(n) :
         calc = [pc |-> "input", store |-> MkStore(l), i |-> 0, out |-> Undef]

(* the duplicate button of row i *)
DuplicateClick(i) ==
  /\ calc.pc = "input"
  /\ i \in 1..Len(Get(calc.store, "pos").el)
  /\ calc' = [calc EXCEPT !.pc = "duplicated",
                          !.i = i,
                          !.out = duplicateInFront(calc.store,
                                                   Get(calc.store, "pos").el[i],
                                                   DupUidStart)]
  /\ UNCHANGED <<hookVars, lsStore>>

NextDupList == \E i \in 1..3 : DuplicateClick(i)

SpecDupList == InitDupList /\ [][NextDupList]_vars

----------------------------------------------------------------------------
(* POsOverview: a drag that ends, with and without a sort key *)

(* isSorting of usePoSort *)
isSortingOf(sortKey) == sortKey # NoSortKey

(* the ids a drag can start on and end over *)
DragIds == {Get(po, "id").s : po \in SortPool}

(* the sort keys the drags are tried under *)
DragSortKeys == {NoSortKey, "poNumber", "price"}

InitDrag ==
  /\ HookIdle
  /\ lsStore = NoItem
  /\ \E n \in 0..MaxList :
       \E l \in SortLists(n), key \in DragSortKeys :
         calc = [pc |-> "input", store |-> Put(SortStore, "pos", Arr(l)),
                 sortKey |-> key, activeId |-> "", overId |-> "", out |-> Undef]

(* the drag of row activeId ends over row overId, or over nothing ("") *)
DragEndStep(activeId, overId) ==
  /\ calc.pc = "input"
  /\ calc' = [calc EXCEPT !.pc = "dragged",
                          !.activeId = activeId,
                          !.overId = overId,
                          !.out = onDragEnd(calc.store, isSortingOf(calc.sortKey),
                                            activeId, overId)]
  /\ UNCHANGED <<hookVars, lsStore>>

NextDrag == \E activeId \in DragIds, overId \in DragIds \cup {""} : DragEndStep(activeId, overId)

SpecDrag == InitDrag /\ [][NextDrag]_vars

----------------------------------------------------------------------------
(* Properties *)

UserOps == {"setDraft", "save", "discard", "switch", "unmount"}

Canon(v) == stableStringify(v)

(* C1: dirty is true exactly when the canonical form of persisted differs
   from the canonical form of draft; it is false right after save(), and
   true after a setDraft whose content differs from persisted. *)
C1_DirtyIffCanonicalDiffers ==
  /\ dirty = (Canon(persisted) # Canon(draft))
  /\ lastOp = "save" => ~dirty
  /\ (lastOp = "setDraft" /\ Canon(draft) # Canon(persisted)) => dirty

(* a setDraft after a manual save made the draft dirty *)
C1_Witness ==
  /\ lastOp = "setDraft"
  /\ lastCommit = "manual"
  /\ dirty
  /\ persisted \in DraftInputs

(* a burst of setDraft calls under auto-save is over: no debounce timer is
   pending, so nothing more of it can be committed however long the quiet
   period lasts *)
BurstSettled == mounted /\ autoSave /\ burst.edits >= 1 /\ ~debounce.on

(* C2 as claimed: a burst of setDraft calls followed by a quiet period
   produces exactly one commit, of the final draft. *)
C2_ExactlyOneCommit == BurstSettled => burst.log = <<draft>>

(* C2 as amended: while the burst's timer is pending nothing of it has been
   committed and the timer holds the latest draft; once it is over there is
   exactly one commit, of the final draft, now in persisted and in local
   storage, when the final draft differed canonically from persisted, and
   no commit when it did not. *)
C2_CoalescedCommit ==
  /\ (mounted /\ autoSave /\ burst.edits >= 1 /\ debounce.on) =>
       (burst.log = <<>> /\ debounce.data = draft)
  /\ BurstSettled =>
       \/ burst.log = <<draft>> /\ persisted = draft /\ lsStore = saveStore(draft)
       \/ burst.log = <<>> /\ ~dirty

(* two or more setDraft calls ended in one commit *)
C2_Witness ==
  /\ BurstSettled
  /\ burst.edits >= 2
  /\ burst.log = <<draft>>
  /\ lastOp = "autoSave"

(* C3: save() commits the draft of the call: afterwards persisted is that
   draft, local storage holds a text that parses to that store, and draft
   is unchanged. *)
C3_SaveCommitsDraft ==
  [][lastOp' = "save" =>
       /\ persisted' = draft
       /\ draft' = draft
       /\ lsStore'.present
       /\ JSONparse(lsStore'.text).ok
       /\ Canon(JSONparse(lsStore'.text).v) = Canon(draft)]_vars

(* a manual save of an edited draft over an older commit *)
C3_Witness ==
  /\ lastOp = "save"
  /\ persisted = StoreB
  /\ draft = StoreB
  /\ lsStore = saveStore(StoreB)

(* C4: discard() sets draft to persisted and changes nothing else:
   persisted, local storage, the auto-save preference and saveStatus stay,
   nothing is written, and dirty is false afterwards. *)
C4_DiscardFrame ==
  [][lastOp' = "discard" =>
       /\ draft' = persisted
       /\ ~dirty'
       /\ UNCHANGED <<persisted, lsStore, lsAutoSave, autoSave, saveStatus,
                      lastCommit, cloudSync>>]_vars

(* the dirty draft of the first load was discarded while nothing had been
   written *)
C4_Witness ==
  /\ lastOp = "discard"
  /\ draft = seedStore(0)
  /\ persisted = seedStore(0)
  /\ lsStore = NoItem
  /\ ~dirty

(* C5: with auto-save on and a dirty draft a debounce timer holding the
   draft is pending, and unless the user acts again the timer's commit
   follows: persisted becomes the draft and dirty false. *)
C5_AutoSaveCommits ==
  /\ []((mounted /\ autoSave /\ dirty) => (debounce.on /\ debounce.data = draft))
  /\ []((mounted /\ autoSave /\ dirty /\ lastOp \notin UserOps) =>
          <>(\/ lastOp \in UserOps
             \/ lastOp = "autoSave" /\ persisted = draft /\ ~dirty))

(* an edited draft was committed by the timer *)
C5_Witness ==
  /\ lastOp = "autoSave"
  /\ lastCommit = "auto"
  /\ userActed
  /\ persisted = draft
  /\ draft \in DraftInputs
  /\ ~dirty

(* C6: right after a commit, manual or automatic, a cloud sync of the
   committed store has been started. *)
C6_SyncAfterCommit ==
  lastOp \in {"save", "autoSave"} => (cloudSync.on /\ cloudSync.store = persisted)

(* C7: once the hook has started and nothing is pending, with a cloud
   record present, persisted, draft and local storage hold the cloud copy
   (they were equal to it, or were overwritten with it). *)
C7_CloudWinsAtStartup ==
  (mounted /\ ~userActed /\ TimerLefts = {} /\ cloud.present) =>
    /\ Canon(persisted) = Canon(cloud.store)
    /\ Canon(draft) = Canon(cloud.store)
    /\ lsStore.present
    /\ JSONparse(lsStore.text).ok
    /\ Canon(JSONparse(lsStore.text).v) = Canon(cloud.store)

(* C8: saveStore(S) of a valid store followed by loadStore() with no writer
   in between returns a store canonically equal to S. *)
C8_RoundTrip ==
  calc.pc = "roundtrip" => Canon(calc.out) = Canon(calc.in)

(* the round trip of a store with a paid PO, NaN units, an undefined note
   and reversed keys *)
C8_Witness ==
  /\ calc.pc = "roundtrip"
  /\ calc.in = MkStore(<<poA("PO-1"), MkPO(Str("paid"), "undef", NaN, TRUE)>>)
  /\ calc.out # calc.in

(* the item is absent, is no JSON, or parses to something that is no object
   with version 1 *)
BadItem(item) ==
  \/ ~item.present
  \/ ~JSONparse(item.text).ok
  \/ LET v == JSONparse(item.text).v IN
       ~(v.t \in {"obj", "arr"} /\ Get(v, "version") = Num(1))

PosOf(store) == Get(store, "pos").el

(* C9: loadStore() always returns a store with version 1; for an absent or
   unparseable item, or one that is no object with version 1, it is the
   seed store; otherwise a PO that came without a status has status draft,
   and a PO that came with one keeps it. *)
C9_LoadNeverFails ==
  calc.pc \in {"loaded", "roundtrip"} =>
    /\ IsObj(calc.out)
    /\ Get(calc.out, "version") = Num(1)
    /\ IsArr(Get(calc.out, "pos"))
    /\ BadItem(lsStore) => calc.out = seedStore(uidCtr)
    /\ calc.out # seedStore(uidCtr) =>
         LET in == PosOf(JSONparse(lsStore.text).v)
             out == PosOf(calc.out)
         IN /\ Len(out) = Len(in)
            /\ \A i \in 1..Len(in) :
                 Get(out[i], "status") =
                   IF Get(in[i], "status") \in {Undef, Null}
                   THEN Str("draft") ELSE Get(in[i], "status")

(* a store whose PO had no status was loaded, and the PO is a draft *)
C9_Witness ==
  /\ calc.pc = "loaded"
  /\ lsStore = Item(JSONstringify(MkStore(<<poA("PO-1"), poNoStatus>>)))
  /\ Get(PosOf(calc.out)[2], "status") = Str("draft")
  /\ Get(PosOf(calc.out)[1], "status") = Str("sent")

(* C10: computePO returns price >= profit >= 0. *)
C10_PriceGeProfitGeZero ==
  calc.pc = "computed" =>
    /\ JsGe(calc.out.price, calc.out.profit)
    /\ JsGe(calc.out.profit, Zero)

(* the copy with the id, the number and the sessions of the source put back *)
RestorePo(dup, source) ==
  Put(Put(Put(dup, "id", Get(source, "id")), "poNumber", Get(source, "poNumber")),
      "sessions", Get(source, "sessions"))

RestoreSession(dup, source) ==
  Put(Put(dup, "id", Get(source, "id")), "date", Get(source, "date"))

(* C11: computePO of the duplicate has the same price, profit, sessionCount
   and producerIds as computePO of the source, and apart from the PO id, the
   PO number, the session ids and the session dates the duplicate equals the
   source. *)
C11_DuplicateKeepsMoney ==
  calc.pc = "computed" =>
    /\ calc.outDup.price = calc.out.price
    /\ calc.outDup.profit = calc.out.profit
    /\ calc.outDup.sessionCount = calc.out.sessionCount
    /\ calc.outDup.producerIds = calc.out.producerIds
    /\ RestorePo(calc.dup, calc.po) = calc.po
    /\ LET ds == Get(calc.dup, "sessions").el
           ss == Get(calc.po, "sessions").el
       IN /\ Len(ds) = Len(ss)
          /\ \A i \in 1..Len(ss) : RestoreSession(ds[i], ss[i]) = ss[i]

(* a PO with two dated sessions of different producers and a finite price
   was duplicated: the copy differs and costs the same *)
C11_Witness ==
  /\ calc.pc = "computed"
  /\ calc.out.sessionCount = 2
  /\ Len(calc.out.producerIds) = 2
  /\ calc.out.price.k = "fin"
  /\ calc.out.price.n > 0
  /\ calc.out.profit.n > 0
  /\ calc.dup # calc.po
  /\ calc.outDup.startDate # calc.out.startDate

(* C12: for a fixed sort key and direction, sorting two permutations of a
   list of POs with distinct ids gives the same sequence. *)
C12_SortIndependentOfInputOrder ==
  calc.pc = "sorted" => calc.outPerm = calc.out

(* a is b with some elements left out *)
RECURSIVE IsSubsequence(_, _)
IsSubsequence(a, b) ==
  IF a = <<>> THEN TRUE
  ELSE IF b = <<>> THEN FALSE
  ELSE IF Head(a) = Head(b) THEN IsSubsequence(Tail(a), Tail(b))
  ELSE IsSubsequence(a, Tail(b))

(* C13: with one more criterion turned on, the filtered list is the
   filtered list of before with some POs left out, the others in the same
   order; and a PO without dated sessions fails every date criterion. *)
C13_FilterMonotone ==
  calc.pc = "filtered" =>
    /\ IsSubsequence(calc.outMore, calc.out)
    /\ IsSubsequence(calc.out, Get(calc.store, "pos").el)
    /\ (calc.more.dateFrom # "" \/ calc.more.dateTo # "") =>
         \A i \in 1..Len(calc.outMore) :
           computedOf(calc.outMore[i], calc.store).startDate # ""

(* a date bound was added to a setting that showed two POs, and one of
   them went *)
C13_Witness ==
  /\ calc.pc = "filtered"
  /\ Len(calc.out) = 2
  /\ Len(calc.outMore) = 1
  /\ calc.filters.dateTo # ""
  /\ calc.filters.dateFrom = ""
  /\ calc.more.dateFrom # ""

(* C14: selecting a key while another key, or none, is active gives that
   key ascending; selecting it again gives descending; selecting it a third
   time gives unsorted: no sort key, direction ascending, and the list
   shown is the filtered list in its own order. *)
C14_ToggleCycle ==
  calc.op = "toggleSort" =>
    /\ calc.streak.n = 1 => (calc.sortKey = calc.streak.key /\ calc.sortDir = "asc")
    /\ calc.streak.n = 2 => (calc.sortKey = calc.streak.key /\ calc.sortDir = "desc")
    /\ calc.streak.n = 3 =>
         /\ calc.sortKey = NoSortKey
         /\ calc.sortDir = "asc"
         /\ ~calc.isSorting
         /\ calc.shown = calc.list

(* a key under which the list is shown in another order was selected three
   times, and the list is back in its own order *)
C14_Witness ==
  /\ calc.op = "toggleSort"
  /\ calc.streak.n = 3
  /\ Len(calc.list) = 2
  /\ sorted(calc.list, calc.streak.key, "asc", SortStore) # calc.list
  /\ calc.shown = calc.list

(* the files that are not valid JSON, are not an object, or have no version 1 *)
InvalidImports ==
  {text \in ImportFiles :
     \/ ~JSONparse(text).ok
     \/ ~IsObj(JSONparse(text).v)
     \/ Get(JSONparse(text).v, "version") # Num(1)}

(* C15: an import whose content is not valid JSON, is not an object, or has
   a version other than 1 or none, is rejected with an error notification
   and leaves draft, persisted and local storage unchanged. *)
C15_InvalidImportRejected ==
  [][\A text \in InvalidImports :
       (lastOp' = "importJson" /\ ImportJson(text)) =>
         /\ calc'.severity = "error"
         /\ calc'.open
         /\ draft' = draft
         /\ persisted' = persisted
         /\ lsStore' = lsStore]_vars

(* an import has just been rejected over a draft with unsaved changes *)
C15_Witness ==
  /\ lastOp = "importJson"
  /\ calc.pc = "toast"
  /\ calc.severity = "error"
  /\ calc.msg = "Import failed: Unsupported format/version"
  /\ dirty
  /\ draft = StoreB

(* C16: after a successful import, persisted and local storage keep their
   content until the user saves: no step other than save(), also when the
   auto-save switch calls it, changes them while the notification of the
   import stands. *)
C16_ImportNotAutoSaved ==
  [][(/\ calc.pc = "toast"
      /\ calc.severity = "success"
      /\ lastOp' \notin {"save", "switch"})
       => (persisted' = persisted /\ lsStore' = lsStore)]_vars

(* who wrote the entity of the partition the signed-in account reads *)
OwnerOfPartition ==
  (CHOOSE o \in calc.owners : o.partitionKey = partitionOf(calc.accounts).v).account

(* C17: two accounts with different identifiers never share a partition:
   the record the signed-in account has at its partition key was written
   by an account with the same identifier, so a load never returns, and a
   save never replaces, the record of another user. *)
C17_CrossUserIsolation ==
  (/\ calc.accounts # <<>>
   /\ partitionOf(calc.accounts).ok
   /\ \E o \in calc.owners : o.partitionKey = partitionOf(calc.accounts).v)
    => AccountId(OwnerOfPartition) = AccountId(calc.accounts[1])

(* the editor is open on a PO with a training and a customer whose trimmed
   number is the trimmed number of another PO of the draft *)
DuplicateNumberTyped ==
  /\ calc.drawer.open
  /\ ~Falsy(Get(calc.drawer.local, "trainingId"))
  /\ ~Falsy(Get(calc.drawer.local, "customerId"))
  /\ \E i \in 1..Len(Pos) :
       /\ Get(Pos[i], "id") # Get(calc.drawer.local, "id")
       /\ trim(Get(Pos[i], "poNumber").s) = trim(Get(calc.drawer.local, "poNumber").s)
       /\ trim(Get(Pos[i], "poNumber").s) # ""

(* C18 as stated: a PO whose trimmed number equals the trimmed number of
   another PO of the draft can be applied. *)
C18_DuplicateNotBlocked == DuplicateNumberTyped => ENABLED Apply

(* C18 amended: while the trimmed number in the editor equals the trimmed
   number of another PO of the draft, Apply is disabled; and the PO an
   Apply stores has a trimmed number that no other PO of the draft has. *)
C18_DuplicateBlocksApply ==
  /\ [](DuplicateNumberTyped => ~ENABLED Apply)
  /\ [][Apply =>
          \A i \in 1..Len(Get(calc'.store, "pos").el) :
            LET po == Get(calc'.store, "pos").el[i] IN
              Get(po, "id") # Get(calc.drawer.local, "id") =>
                trim(Get(po, "poNumber").s) # trim(Get(calc.drawer.local, "poNumber").s)]_vars

(* the number of another PO, with blanks around it, stands in the editor of
   a new PO that has its training and its customer *)
C18_Witness ==
  /\ DuplicateNumberTyped
  /\ calc.drawer.mode = "new"
  /\ Get(calc.drawer.local, "poNumber") = Str(" PO-1 ")

(* C19: two stores with the same content whose objects were built with
   their keys in different orders serialise to the same string, a store and
   its deep copy serialise to the same string, and two stores that differ
   only in the order of the elements of an array serialise to different
   strings. *)
C19_StableStringify ==
  calc.pc = "done" =>
    /\ calc.outRekeyed = calc.out
    /\ calc.outCopy = calc.out
    /\ calc.exchanged # calc.store => calc.outExchanged # calc.out

(* two POs of the store were exchanged, and JSON.stringify tells the store
   from the one with its keys in another order *)
C19_Witness ==
  /\ calc.pc = "done"
  /\ calc.exchanged # calc.store
  /\ Get(calc.exchanged, "pos") # Get(calc.store, "pos")
  /\ JSONstringify(calc.rekeyed) # JSONstringify(calc.store)
  /\ calc.outRekeyed = calc.out

IdSeq(list) == [i \in 1..Len(list) |-> Get(list[i], "id")]
IdSet(list) == {Get(list[i], "id") : i \in 1..Len(list)}

IsSuffix(a, b) == Len(a) <= Len(b) /\ SubSeq(b, Len(b) - Len(a) + 1, Len(b)) = a

Collections == {"trainings", "customers", "producers", "pos"}

(* every id is unique within its collection: the entities of each kind, the
   POs, and the sessions of each PO *)
StoreIdsUnique(store) ==
  /\ \A key \in Collections : Injective(IdSeq(Get(store, key).el))
  /\ \A i \in 1..Len(Get(store, "pos").el) :
       Injective(IdSeq(Get(Get(store, "pos").el[i], "sessions").el))

SeqRange(q) == {q[i] : i \in 1..Len(q)}

(* what a step does to the ids of one list: it keeps them where they are,
   with new ones in front or at the end; or it is a drag and keeps them
   all; or it is a removal and takes one out *)
IdsKept(old, new, dragged, removed) ==
  \/ new = old
  \/ /\ IsSuffix(old, new)
     /\ SeqRange(old) \cap SeqRange(SubSeq(new, 1, Len(new) - Len(old))) = {}
  \/ /\ Len(new) > Len(old)
     /\ SubSeq(new, 1, Len(old)) = old
     /\ SeqRange(old) \cap SeqRange(SubSeq(new, Len(old) + 1, Len(new))) = {}
  \/ dragged /\ SeqRange(new) = SeqRange(old) /\ Len(new) = Len(old)
  \/ removed /\ IsSubsequence(new, old) /\ Len(new) = Len(old) - 1

(* the sessions of the POs the step keeps: those of the editor for the PO
   an apply stores, the same as before for every other *)
SessionIdsKept(oldPos, newPos, applied, local) ==
  \A i \in 1..Len(oldPos), j \in 1..Len(newPos) :
    Get(newPos[j], "id") = Get(oldPos[i], "id") =>
      IF applied /\ Get(newPos[j], "id") = Get(local, "id")
      THEN IdSeq(Get(newPos[j], "sessions").el) = IdSeq(Get(local, "sessions").el)
      ELSE IdSeq(Get(newPos[j], "sessions").el) = IdSeq(Get(oldPos[i], "sessions").el)

(* C20: after any sequence of draft operations every id is unique within
   its collection in the draft, and in the PO being edited; and no
   operation changes the id of an existing entity: the ids of a collection
   stay where they are while new ones are added, a drag only reorders them,
   a removal takes out one, and the sessions of a PO change only when the
   editor is applied, to the sessions the editor holds. *)
C20_IdsUniqueAndKept ==
  /\ [](StoreIdsUnique(calc.store)
        /\ (calc.drawer.open => Injective(IdSeq(LocalSessions))))
  /\ [][/\ \/ calc'.store = calc.store
            \/ /\ \A key \in Collections :
                    IdsKept(IdSeq(Get(calc.store, key).el),
                            IdSeq(Get(calc'.store, key).el),
                            calc'.op = "dragEnd",
                            calc'.op \in {"removePo", "entityRemove"})
               /\ SessionIdsKept(Pos, Get(calc'.store, "pos").el,
                                 calc'.op = "apply", calc.drawer.local)
         /\ (calc.drawer.open /\ calc'.drawer.open) =>
              /\ Get(calc'.drawer.local, "id") = Get(calc.drawer.local, "id")
              /\ IdsKept(IdSeq(LocalSessions),
                         IdSeq(Get(calc'.drawer.local, "sessions").el),
                         FALSE, calc'.op = "removeSession")]_vars

(* a new PO with a session of its own has been applied next to the PO the
   draft had *)
C20_Witness ==
  /\ calc.op = "apply"
  /\ Len(Pos) = 2
  /\ Get(Pos[2], "id") = Str("po_a")
  /\ Len(Get(Pos[1], "sessions").el) = 1

(* a step that commits: save(), the debounce timer, or the switch turned on
   over a dirty draft *)
CommitStep ==
  \/ lastOp' \in {"save", "autoSave"}
  \/ lastOp' = "switch" /\ ~autoSave /\ dirty

(* C21: a commit sets saveStatus to saving and starts the 300 ms timer
   anew, whatever phase the cycle was in; saveStatus changes otherwise only
   from saving to saved when the 300 ms since the most recent commit are
   over, which starts the 2000 ms timer, and from saved to idle when those
   are over; the one timer pending is always the one of the phase
   saveStatus shows; and while the hook is mounted saveStatus returns to
   idle unless another commit comes. *)
C21_StatusCycle ==
  /\ [][CommitStep =>
          /\ saveStatus' = "saving"
          /\ savedTimer' = [phase |-> "toSaved", left |-> SAVING_DELAY]]_vars
  /\ [][(~CommitStep /\ saveStatus' # saveStatus) =>
          \/ /\ saveStatus = "saving" /\ saveStatus' = "saved"
             /\ savedTimer = [phase |-> "toSaved", left |-> 0]
             /\ savedTimer' = [phase |-> "toIdle", left |-> SAVED_DISPLAY_DURATION]
          \/ /\ saveStatus = "saved" /\ saveStatus' = "idle"
             /\ savedTimer = [phase |-> "toIdle", left |-> 0]
             /\ savedTimer' = NoSavedTimer]_vars
  /\ [](mounted =>
          /\ (saveStatus = "saving") = (savedTimer.phase = "toSaved")
          /\ (saveStatus = "saved") = (savedTimer.phase = "toIdle")
          /\ (saveStatus = "idle") = (savedTimer.phase = "none")
          /\ savedTimer.phase = "toSaved" => savedTimer.left <= SAVING_DELAY
          /\ savedTimer.phase = "toIdle" => savedTimer.left <= SAVED_DISPLAY_DURATION)
  /\ []((mounted /\ saveStatus # "idle" /\ lastOp = "tick") =>
          <>(\/ saveStatus = "idle"
             \/ ~mounted
             \/ lastOp \in {"save", "autoSave"}
             \/ lastOp = "switch" /\ savedTimer = [phase |-> "toSaved",
                                                   left |-> SAVING_DELAY]))

(* the cycle of a commit by the debounce timer has run to its end *)
C21_Witness ==
  /\ mounted
  /\ lastOp = "idleTimer"
  /\ lastCommit = "auto"
  /\ saveStatus = "idle"
  /\ savedTimer = NoSavedTimer

(* C22: once the hook is torn down no timer is pending, the debounce timer
   cannot fire, and nothing changes persisted, local storage or saveStatus
   any more; the teardown itself writes nothing. *)
C22_NoCommitAfterTeardown ==
  /\ [](~mounted =>
          /\ ~debounce.on
          /\ savedTimer.phase = "none"
          /\ ~ENABLED DebounceFire)
  /\ [][~mounted' => UNCHANGED <<persisted, lsStore, saveStatus>>]_vars

(* the hook was torn down over a dirty draft with auto-save on, that is
   while a debounce timer was pending *)
C22_Witness ==
  /\ ~mounted
  /\ lastOp = "unmount"
  /\ autoSave
  /\ dirty
  /\ draft \in DraftInputs
  /\ persisted # draft

(* the session names a producer of the map *)
Resolves(s, producers) ==
  /\ ~Falsy(Get(s, "producerId"))
  /\ MapGet(producers, Get(s, "producerId")) # Undef

(* the sessions from i on that name a producer of the map *)
RECURSIVE ResolvedFrom(_, _, _)
ResolvedFrom(sessions, producers, i) ==
  IF i > Len(sessions) THEN <<>>
  ELSE IF Resolves(sessions[i], producers)
  THEN <<sessions[i]>> \o ResolvedFrom(sessions, producers, i + 1)
  ELSE ResolvedFrom(sessions, producers, i + 1)

(* what C23 says of the result out of computePO for the sessions given,
   against the result for the resolved sessions alone *)
CountsAndSkips(out, outResolved, sessions, producers) ==
  /\ out.sessionCount = Len(sessions)
  /\ out.price = outResolved.price
  /\ out.profit = outResolved.profit
  /\ out.producerIds = outResolved.producerIds
  /\ (\A i \in 1..Len(sessions) : ~Resolves(sessions[i], producers)) =>
       (out.price = Zero /\ out.profit = Zero /\ out.producerIds = <<>>)
  /\ \A i, j \in 1..Len(out.producerIds) :
       out.producerIds[i] = out.producerIds[j] => i = j
  /\ {out.producerIds[i] : i \in 1..Len(out.producerIds)}
       = {Get(sessions[i], "producerId") :
            i \in {j \in 1..Len(sessions) : Resolves(sessions[j], producers)}}

(* C23: sessionCount is the number of sessions; the sessions with an empty
   producerId or one that is not in the producer map can be left out
   without changing price, profit or producerIds, which are zero and empty
   when no session is left; and producerIds holds the producer ids of the
   other sessions, each once. *)
C23_CountsAndSkips ==
  calc.pc = "computed" =>
    CountsAndSkips(calc.out,
                   computePO(Put(calc.po, "sessions",
                                 Arr(ResolvedFrom(Get(calc.po, "sessions").el,
                                                  calc.producers, 1))),
                             calc.producers),
                   Get(calc.po, "sessions").el, calc.producers)

(* two sessions, one of a producer that is gone and one of a producer of the
   map: both are counted, one producer id is listed *)
C23_Witness ==
  /\ calc.pc = "computed"
  /\ calc.out.sessionCount = 2
  /\ Get(Get(calc.po, "sessions").el[1], "producerId") = Str("pr_gone")
  /\ Get(Get(calc.po, "sessions").el[2], "producerId") = Str("pr_2")
  /\ calc.out.producerIds = <<Str("pr_2")>>
  /\ calc.out.price = Num(1600)

(* the ids of all sessions of the POs of a list *)
SessionIdsOf(pos) ==
  UNION {IdSet(Get(pos[i], "sessions").el) : i \in 1..Len(pos)}

(* the session is a copy of the session src a week later: a new id, the
   date 7 days on or empty as before, everything else the same *)
SessionAWeekLater(se, src, oldIds) ==
  /\ Get(se, "id") \notin oldIds
  /\ IF Get(src, "date") = Str("") THEN Get(se, "date") = Str("")
     ELSE DayIndex(Get(se, "date").s) = DayIndex(Get(src, "date").s) + 7
  /\ Put(Put(se, "id", Get(src, "id")), "date", Get(src, "date")) = src

(* what C24 says of the PO list new made from the list old by duplicating
   the PO src *)
DuplicatedInFront(old, new, src) ==
  /\ Len(new) = Len(old) + 1
  /\ SubSeq(new, 2, Len(new)) = old
  /\ Get(new[1], "id") \notin IdSet(old)
  /\ Get(new[1], "poNumber") =
       (IF Get(src, "poNumber") = Str("") THEN Str("")
        ELSE Str(Get(src, "poNumber").s \o "-copy"))
  /\ Len(Get(new[1], "sessions").el) = Len(Get(src, "sessions").el)
  /\ Injective(IdSeq(Get(new[1], "sessions").el))
  /\ \A k \in 1..Len(Get(src, "sessions").el) :
       SessionAWeekLater(Get(new[1], "sessions").el[k], Get(src, "sessions").el[k],
                         SessionIdsOf(old))

(* C24: the duplicate button puts one new PO in front of the POs of the
   draft, which stay as they were and in their order, the source among
   them, and changes nothing else of the draft; the new PO has an id no PO
   had, as many sessions as the source in the same order, each with an id no
   session had and the date 7 days later, or empty where it was empty, and
   the number of the source followed by -copy, or no number where the
   source had none. *)
C24_DuplicateInFront ==
  calc.pc = "duplicated" =>
    /\ Put(calc.out, "pos", Get(calc.store, "pos")) = calc.store
    /\ DuplicatedInFront(Get(calc.store, "pos").el, Get(calc.out, "pos").el,
                         Get(calc.store, "pos").el[calc.i])

(* the second of three POs was duplicated: it has a number, a dated session
   and a session without a date *)
C24_Witness ==
  /\ calc.pc = "duplicated"
  /\ calc.i = 2
  /\ Len(Get(calc.out, "pos").el) = 4
  /\ Get(Get(calc.out, "pos").el[1], "poNumber") = Str("PO-7-copy")
  /\ Len(Get(Get(calc.out, "pos").el[1], "sessions").el) = 2
  /\ Get(Get(Get(calc.out, "pos").el[1], "sessions").el[1], "date") = Str("2026-01-17")
  /\ Get(Get(Get(calc.out, "pos").el[1], "sessions").el[2], "date") = Str("")

(* the list without the PO of that id *)
Without(list, id) == SelectSeq(list, LAMBDA po : Get(po, "id") # Str(id))

(* the PO of id activeId has moved from its place in old to the place the
   PO of id overId had, and the other POs are in the order they were in *)
MovedTo(old, new, activeId, overId) ==
  /\ Len(new) = Len(old)
  /\ \A i \in 1..Len(old) :
       Get(old[i], "id") = Str(overId) => Get(new[i], "id") = Str(activeId)
  /\ \A i \in 1..Len(old) : \E j \in 1..Len(new) : new[j] = old[i]
  /\ Without(new, activeId) = Without(old, activeId)

(* C25: while a sort key is active the end of a drag leaves the draft as it
   is; while none is active, a drag that ends over nothing or over the row
   it started on leaves the draft as it is, and a drag from one PO of the
   draft to another puts the dragged PO at the index the other had in the
   list of all POs, with the same POs in the list, the others in their
   order, and nothing else of the draft changed. *)
C25_SortOrDrag ==
  calc.pc = "dragged" =>
    /\ isSortingOf(calc.sortKey) => calc.out = calc.store
    /\ (calc.overId = "" \/ calc.overId = calc.activeId) => calc.out = calc.store
    /\ (/\ ~isSortingOf(calc.sortKey)
        /\ calc.overId # calc.activeId
        /\ Str(calc.activeId) \in IdSet(Get(calc.store, "pos").el)
        /\ Str(calc.overId) \in IdSet(Get(calc.store, "pos").el)) =>
         /\ Put(calc.out, "pos", Get(calc.store, "pos")) = calc.store
         /\ calc.out # calc.store
         /\ MovedTo(Get(calc.store, "pos").el, Get(calc.out, "pos").el,
                    calc.activeId, calc.overId)

(* with no sort key the first of three POs was dragged onto the last *)
C25_Witness ==
  /\ calc.pc = "dragged"
  /\ calc.sortKey = NoSortKey
  /\ Len(Get(calc.store, "pos").el) = 3
  /\ Get(Get(calc.store, "pos").el[1], "id") = Str(calc.activeId)
  /\ Get(Get(calc.store, "pos").el[3], "id") = Str(calc.overId)
  /\ Get(Get(calc.out, "pos").el[3], "id") = Str(calc.activeId)
  /\ Get(Get(calc.out, "pos").el[1], "id") = Get(Get(calc.store, "pos").el[2], "id")

(* the chunks one after the other *)
RECURSIVE Concat(_)
Concat(chunks) == IF chunks = <<>> THEN <<>> ELSE Head(chunks) \o Concat(Tail(chunks))

(* the entity of the signed-in account in the table *)
OwnEntity(table) == getEntity(table, partitionOf(calc.accounts).v, ROW_KEY).v

(* what C26 says of the entity written for a store *)
ChunkedJson(entity, store) ==
  /\ entity.chunkCount = Len(entity.data)
  /\ entity.chunkCount >= 1
  /\ \A i \in 1..Len(entity.data) :
       Len(entity.data[i]) >= 1 /\ Len(entity.data[i]) <= MAX_PROPERTY_SIZE
  /\ Concat(entity.data) = JSONstringify(store)

(* C26: a saveToCloud that reaches the table writes an entity whose
   chunkCount is the number of its chunks data_0 .. data_(chunkCount-1),
   none longer than MAX_PROPERTY_SIZE, which put together in the order of
   their index are the JSON text of the store; and the loadFromCloud that
   follows returns a store equal to the one saved. *)
C26_ChunkRoundTrip ==
  /\ [][\A store \in {StoreA, StoreB} :
          (calc'.op = "saveToCloud" /\ calc'.result.ok /\ SaveToCloudStep(store)) =>
            /\ ChunkedJson(OwnEntity(calc'.table), store)
            /\ parseEntity(OwnEntity(calc'.table)).ok
            /\ parseEntity(OwnEntity(calc'.table)).v.store = store]_vars
  /\ [][(calc.op = "saveToCloud" /\ calc.result.ok /\ calc'.op = "loadFromCloud") =>
          /\ calc'.result = parseEntity(OwnEntity(calc.table))
          /\ \E store \in {StoreA, StoreB} :
               /\ ChunkedJson(OwnEntity(calc.table), store)
               /\ calc'.result.v.store = store]_vars

(* a store was saved in several chunks, the last one not full, and the load
   that followed returned it *)
C26_Witness ==
  /\ calc.op = "loadFromCloud"
  /\ calc.result.ok
  /\ calc.result.v # Null
  /\ calc.result.v.store = StoreB
  /\ OwnEntity(calc.table).chunkCount >= 2
  /\ Len(OwnEntity(calc.table).data[OwnEntity(calc.table).chunkCount]) < MAX_PROPERTY_SIZE

(* C27: right after the hook has been initialised, before any user
   operation and before any timer has fired, draft and persisted are
   canonically equal, dirty is false and no debounce timer is pending,
   whatever local storage held. *)
C27_CleanAtStart ==
  lastOp = "init" =>
    /\ Canon(persisted) = Canon(draft)
    /\ ~dirty
    /\ ~debounce.on

(* C28: with auto-save on, a save() or a discard() while the debounce timer
   is pending leaves no timer pending and the draft clean; a timer is
   pending only over a dirty draft and holds that draft, so no commit by
   the timer comes before the draft has changed again; and a commit by the
   timer writes the draft and leaves it clean, so neither an edit that has
   been committed nor a draft that has been discarded is written by a
   timer afterwards. *)
C28_SaveDiscardCancel ==
  /\ [][(autoSave /\ debounce.on /\ lastOp' \in {"save", "discard"}) =>
          /\ ~debounce'.on
          /\ ~dirty']_vars
  /\ [](debounce.on => (autoSave /\ dirty /\ debounce.data = draft))
  /\ [](~dirty => ~ENABLED DebounceFire)
  /\ [][lastOp' = "autoSave" =>
          /\ dirty /\ debounce.on
          /\ persisted' = draft /\ ~dirty' /\ ~debounce'.on]_vars
  /\ [][(lastOp' = "discard" /\ debounce.on) =>
          (persisted' = persisted /\ lsStore' = lsStore /\ draft' = persisted)]_vars

(* auto-save has been on since the page loaded with a stored draft, an edit
   set the timer, and a discard came before it fired *)
C28_Witness ==
  /\ lastOp = "discard"
  /\ autoSave
  /\ lsAutoSave = NoPref
  /\ lastCommit = "none"
  /\ lsStore = Item(JSONstringify(StoreA))
  /\ draft = persisted
  /\ ~debounce.on

(* C29: while auto-save is off no debounce timer is pending and none can
   fire; a step that leaves auto-save off changes persisted or the stored
   store only by save(); a step taken with auto-save off changes them only
   by save(), called directly or by the switch handler that turns auto-save
   on over a dirty draft; and switching auto-save off leaves no timer
   pending and persisted and the stored store as they were. *)
C29_OffOnlySave ==
  /\ [](~autoSave => (~debounce.on /\ ~ENABLED DebounceFire))
  /\ [][(~autoSave' /\ (persisted' # persisted \/ lsStore' # lsStore)) =>
          (lastOp' = "save" /\ persisted' = draft)]_vars
  /\ [][(~autoSave /\ (persisted' # persisted \/ lsStore' # lsStore)) =>
          /\ lastOp' = "save" \/ (lastOp' = "switch" /\ dirty)
          /\ persisted' = draft]_vars
  /\ [][(autoSave /\ ~autoSave') =>
          /\ lastOp' = "switch"
          /\ ~debounce'.on
          /\ persisted' = persisted /\ lsStore' = lsStore
          /\ draft' = draft]_vars

(* auto-save was on from the page load over a stored draft, an edit set
   the timer, and the switch was turned off before it fired: the draft is
   still dirty, nothing has been committed and no timer is pending *)
C29_Witness ==
  /\ lastOp = "switch"
  /\ ~autoSave
  /\ lsAutoSave = Pref("false")
  /\ dirty
  /\ lastCommit = "none"
  /\ lsStore = Item(JSONstringify(StoreA))
  /\ persisted = StoreA
  /\ ~debounce.on

ThrewStep == lastOp' \in {"saveThrew", "switchThrew", "autoSaveThrew"}

(* C30: a commit whose write to local storage throws leaves persisted, the
   draft and the stored text as they were, so dirty keeps its value (true
   for a commit of a dirty draft, which a commit by the timer or by the
   switch always is) and the hook shows no completed save; and at all
   times persisted is either the store loaded at the start, with nothing
   committed since, or the store whose text is in local storage. *)
C30_ThrowKeepsPersisted ==
  /\ [][ThrewStep =>
          /\ persisted' = persisted
          /\ draft' = draft
          /\ lsStore' = lsStore
          /\ dirty' = dirty
          /\ lastCommit' = lastCommit
          /\ (lastOp' # "saveThrew" => dirty')]_vars
  /\ [](lastCommit = "none" => persisted = loadStore(lsStore, 0))
  /\ [](lastCommit # "none" => lsStore = saveStore(persisted))

(* an edit was committed, a second edit set the timer, and the write of the
   timer's commit threw: persisted and local storage hold the first edit,
   the draft is the second and still dirty *)
C30_Witness ==
  /\ lastOp = "autoSaveThrew"
  /\ lastCommit = "auto"
  /\ dirty
  /\ draft = StoreB
  /\ persisted = StoreAk
  /\ lsStore = saveStore(StoreAk)
  /\ saveStatus = "saving"
  /\ ~debounce.on

====
